---- MODULE Spec2Model ----
(***************************************************************************)
(* Disk cleaner: the safety-scoped scan / apply engine.                    *)
(*                                                                         *)
(* Two implementations of the engine live in the repository: the Node      *)
(* server (script.js: scanHandler, applyHandler) and the shell CLI         *)
(* (disk_cleaner.sh: scan, apply_plan).  Both are modelled over one file   *)
(* system.                                                                 *)
(*                                                                         *)
(* Paths.  A path string is modelled as the sequence of its segments: the  *)
(* string is the concatenation of "/" \o segment over the sequence, so     *)
(*   <<>>                 is the empty string ''                           *)
(*   <<"Users","u">>      is "/Users/u"                                    *)
(*   <<"Users","u","">>   is "/Users/u/"                                   *)
(* A resolved (canonical) path has no "", "." or ".." segment; <<>> then   *)
(* stands for the root directory.                                          *)
(***************************************************************************)
EXTENDS Integers, Sequences, FiniteSets, TLC

VARIABLES
    fs,         \* the file system: a set of entries (files, directories, symlinks)
    scanCache,  \* script.js scanCache: a set of [key, ts, body]
    now,        \* wall clock, in seconds
    call,       \* the request (server) or invocation (CLI) in progress
    ui          \* the page of the browser UI: script.js state and the elements it reads

vars == <<fs, scanCache, now, call, ui>>

-----------------------------------------------------------------------------
(* Bounds *)

MaxPlanLen == 2

\* The clock stops at MaxNow seconds; it moves TickSeconds at a time.
\* The longest command line, in flags after --apply-from FILE.
MaxArgs == 2

\* The most handlers suspended at an await at one time.
MaxInFlight == 2

\* Directories one walk may read.
MaxReads == 6

\* Filters of the page away from their defaults at one time
MaxFilters == 2

MaxNow == 450
TickSeconds == 150

-----------------------------------------------------------------------------
(* Path strings *)

HOME == <<"Users", "u">>

IsPrefix(a, b) == Len(a) <= Len(b) /\ SubSeq(b, 1, Len(a)) = a

Parent(c) == IF c = <<>> THEN <<>> ELSE SubSeq(c, 1, Len(c) - 1)

\* String prefix on single names: pairs <<prefix, name>> with prefix a proper
\* string prefix of name, over the names that occur in the model.
NamePrefixPairs ==
    { <<"Documents", "Documents-old">>, <<"Desktop", "Desktop2">>,
      <<"Pictures", "Pictures.bak">> }

NameStartsWith(name, prefix) == name = prefix \/ <<prefix, name>> \in NamePrefixPairs

\* Names that end with ".photoslibrary", and those among them in which
\* "Photos" occurs before that suffix.
PhotosLibraryNames == { "Trip.photoslibrary", "Photos Library.photoslibrary" }
PhotosThenLibraryNames == { "Photos Library.photoslibrary" }
ContainsPhotosNames == { "Photos Library.photoslibrary", "Photos" }

\* path.resolve / path.join's normalisation of an absolute path: lexical, left to right.
RECURSIVE resolveFrom(_, _)
resolveFrom(acc, rest) ==
    IF rest = <<>> THEN acc
    ELSE LET s == Head(rest)
         IN resolveFrom(IF s \in {"", "."} THEN acc
                        ELSE IF s = ".." THEN Parent(acc)
                        ELSE Append(acc, s),
                        Tail(rest))

resolve(p) == resolveFrom(<<>>, p)

\* String.prototype.startsWith of a resolved path against a resolved directory
\* path (no trailing separator): a string prefix, so the last segment of dir
\* need only be a prefix of the corresponding segment of n.
StartsWithStr(n, dir) ==
    LET k == Len(dir)
    IN /\ Len(n) >= k
       /\ SubSeq(n, 1, k - 1) = SubSeq(dir, 1, k - 1)
       /\ NameStartsWith(n[k], dir[k])

RECURSIVE lastNonEmpty(_)
lastNonEmpty(p) ==
    IF p = <<>> THEN ""
    ELSE IF p[Len(p)] # "" THEN p[Len(p)]
    ELSE lastNonEmpty(SubSeq(p, 1, Len(p) - 1))

\* path.basename / basename(1): trailing separators are ignored.
basename(p) == lastNonEmpty(p)

-----------------------------------------------------------------------------
(* Safety policy, server *)

isDenyListed(p) ==
    LET normalized == resolve(p)
    IN \/ StartsWithStr(normalized, HOME \o <<"Pictures">>)
       \/ \E i \in 1..(Len(normalized) - 1) : normalized[i] \in PhotosLibraryNames
       \/ StartsWithStr(normalized, HOME \o <<"Library", "Mail">>)
       \/ StartsWithStr(normalized, HOME \o <<"Library", "Mobile Documents">>)
       \/ StartsWithStr(normalized, HOME \o <<"Desktop">>)
       \/ StartsWithStr(normalized, HOME \o <<"Documents">>)

ensureHomeScoped(p) ==
    LET normalized == resolve(p)
    IN Len(normalized) > Len(HOME) /\ IsPrefix(HOME, normalized)

(* Safety policy, CLI: shell case patterns on the string as given; "*"      *)
(* matches any string, "/" and ".." included.                               *)

ensure_home_scope(p) == Len(p) > Len(HOME) /\ IsPrefix(HOME, p)

deny_listed(p) ==
    \/ Len(p) > 3 /\ IsPrefix(HOME \o <<"Pictures">>, p)
    \/ /\ IsPrefix(HOME, p)
       /\ \E i \in 3..(Len(p) - 1) : \E j \in i..(Len(p) - 1) :
             /\ p[i] \in ContainsPhotosNames
             /\ p[j] \in PhotosLibraryNames
             /\ (i = j => p[i] \in PhotosThenLibraryNames)
    \/ Len(p) > 4 /\ IsPrefix(HOME \o <<"Library", "Mail">>, p)
    \/ Len(p) > 4 /\ IsPrefix(HOME \o <<"Library", "Mobile Documents">>, p)
    \/ Len(p) > 3 /\ IsPrefix(HOME \o <<"Desktop">>, p)
    \/ Len(p) > 3 /\ IsPrefix(HOME \o <<"Documents">>, p)

-----------------------------------------------------------------------------
(* File system *)

Dir(p, ino) == [path |-> p, kind |-> "dir", size |-> 1, mtime |-> 0, target |-> <<>>, ino |-> ino]
File(p, size, ino) == [path |-> p, kind |-> "file", size |-> size, mtime |-> 0, target |-> <<>>, ino |-> ino]
Link(p, target, ino) == [path |-> p, kind |-> "link", size |-> 1, mtime |-> 0, target |-> target, ino |-> ino]

Has(fsv, c) == \E e \in fsv : e.path = c
EntryAt(fsv, c) == CHOOSE e \in fsv : e.path = c
KindAt(fsv, c) == IF Has(fsv, c) THEN EntryAt(fsv, c).kind ELSE "none"
Subtree(fsv, c) == { e \in fsv : IsPrefix(c, e.path) }

NoEnt == [ok |-> FALSE, path |-> <<>>]
Found(c) == [ok |-> TRUE, path |-> c]

\* The kernel's path lookup from directory cur: symlinks in the middle of the
\* path are followed, the last one only when follow is set.
RECURSIVE namei(_, _, _, _)
namei(fsv, cur, rest, follow) ==
    IF rest = <<>> THEN (IF Has(fsv, cur) THEN Found(cur) ELSE NoEnt)
    ELSE IF KindAt(fsv, cur) # "dir" THEN NoEnt
    ELSE LET s == Head(rest)
             t == Tail(rest)
             child == Append(cur, s)
         IN IF s \in {"", "."} THEN namei(fsv, cur, t, follow)
            ELSE IF s = ".." THEN namei(fsv, Parent(cur), t, follow)
            ELSE IF KindAt(fsv, child) = "link" /\ (t # <<>> \/ follow)
                 THEN namei(fsv, EntryAt(fsv, child).target, t, follow)
            ELSE namei(fsv, child, t, follow)

stat(fsv, p) == IF p = <<>> THEN NoEnt ELSE namei(fsv, <<>>, p, TRUE)
lstat(fsv, p) == IF p = <<>> THEN NoEnt ELSE namei(fsv, <<>>, p, FALSE)

\* fs.existsSync(p), [ -e "$p" ]
existsSync(fsv, p) == stat(fsv, p).ok

\* rename(2) of src to the name destName in the directory destDir.
rename(fsv, src, destDir, destName, ioFails) ==
    LET s == lstat(fsv, src)
        d == stat(fsv, destDir)
        dest == Append(d.path, destName)
        moved == { [e EXCEPT !.path = dest \o SubSeq(e.path, Len(s.path) + 1, Len(e.path))]
                   : e \in Subtree(fsv, s.path) }
        fails ==
            \/ ioFails
            \/ ~s.ok \/ ~d.ok
            \/ destName \in {"", ".", ".."}
            \/ KindAt(fsv, d.path) # "dir"
            \/ s.path = <<>>
            \/ (dest # s.path /\ IsPrefix(s.path, dest))
            \/ /\ Has(fsv, dest) /\ dest # s.path
               /\ \/ (KindAt(fsv, s.path) = "dir") # (KindAt(fsv, dest) = "dir")
                  \/ Subtree(fsv, dest) # {EntryAt(fsv, dest)}
    IN IF fails THEN [ok |-> FALSE, fs |-> fsv, dest |-> <<>>]
       ELSE IF dest = s.path THEN [ok |-> TRUE, fs |-> fsv, dest |-> dest]
       ELSE [ok |-> TRUE,
             fs |-> ((fsv \ Subtree(fsv, s.path)) \ Subtree(fsv, dest)) \cup moved,
             dest |-> dest]

\* Removal of the entry p names (a symlink itself, never its target), with
\* everything below it.
remove(fsv, p, recursive, force, ioFails) ==
    LET s == lstat(fsv, p)
    IN IF ~s.ok THEN [ok |-> force /\ ~ioFails, fs |-> fsv]
       ELSE IF ioFails \/ s.path = <<>> \/ (KindAt(fsv, s.path) = "dir" /\ ~recursive)
            THEN [ok |-> FALSE, fs |-> fsv]
       ELSE [ok |-> TRUE, fs |-> fsv \ Subtree(fsv, s.path)]

-----------------------------------------------------------------------------
(* Trash, server *)

\* ensureTrashDir: [ok, fs, dir]; ok is false where the code returns null.
ensureTrashDir(fsv, ioFails) ==
    LET t == HOME \o <<".Trash">>
    IN IF existsSync(fsv, t) THEN [ok |-> TRUE, fs |-> fsv, dir |-> t]
       ELSE IF ioFails \/ Has(fsv, t) \/ KindAt(fsv, HOME) # "dir"
            THEN [ok |-> FALSE, fs |-> fsv, dir |-> t]
       ELSE [ok |-> TRUE, fs |-> fsv \cup {Dir(t, 0)}, dir |-> t]

\* ts: new Date().toISOString() with ":" and "." removed, "T" made "-", cut
\* to 15 characters, "YYYY-MM-DD-HHMM": the minute the clock shows.
Stamp(nowv) == ToString(nowv \div 60)

\* safeTrashMove: [ok, fs, dest]; ok is false where the code throws.
safeTrashMove(fsv, p, nowv, ioFails) ==
    LET td == ensureTrashDir(fsv, ioFails)
        name == basename(p)
        plain == resolve(td.dir \o <<name>>)
        dest == IF existsSync(td.fs, plain)
                THEN resolve(td.dir \o <<name \o "-" \o Stamp(nowv)>>)
                ELSE plain
    IN IF ~td.ok THEN [ok |-> FALSE, fs |-> td.fs, dest |-> <<>>]
       ELSE IF dest = <<>> THEN [ok |-> FALSE, fs |-> td.fs, dest |-> <<>>]
       ELSE rename(td.fs, p, Parent(dest), dest[Len(dest)], ioFails)

(* Trash, CLI *)

\* ts="$(date +"%Y%m%d-%H%M%S")": the second the clock shows.
date_stamp(nowv) == ToString(nowv)

ensure_trash_dir(fsv, ioFails) ==
    LET t == HOME \o <<".Trash">>
        isDir == stat(fsv, t).ok /\ KindAt(fsv, stat(fsv, t).path) = "dir"
    IN IF isDir THEN [ok |-> TRUE, fs |-> fsv, dir |-> t]
       ELSE IF ioFails \/ Has(fsv, t) \/ KindAt(fsv, HOME) # "dir"
            THEN [ok |-> FALSE, fs |-> fsv, dir |-> t]
       ELSE [ok |-> TRUE, fs |-> fsv \cup {Dir(t, 0)}, dir |-> t]

\* mv -f src dest: into dest when dest is an existing directory, else onto it.
mv(fsv, src, dest, ioFails) ==
    LET d == stat(fsv, dest)
    IN IF d.ok /\ KindAt(fsv, d.path) = "dir"
       THEN rename(fsv, src, dest, basename(src), ioFails)
       ELSE rename(fsv, src, Parent(dest), dest[Len(dest)], ioFails)

safe_trash(fsv, p, nowv, ioFails) ==
    LET td == ensure_trash_dir(fsv, ioFails)
        name == basename(p)
        plain == td.dir \o <<name>>
        dest == IF existsSync(td.fs, plain)
                THEN td.dir \o <<name \o "-" \o date_stamp(nowv)>>
                ELSE plain
    IN IF ~td.ok THEN [ok |-> FALSE, fs |-> td.fs, dest |-> <<>>]
       ELSE mv(td.fs, p, dest, ioFails)

-----------------------------------------------------------------------------
(* Plans *)

\* The entries of a plan's items array.  tag "path": an object with a path;
\* "nopath": a value whose .path is undefined or empty (an object without the
\* field, a number, a string); "null": null, on which reading .path throws.
\* bytes and mtime are the fields of those names an item carries, as a scan
\* report gives them; -1 when the item has no such field.
PathItem(p) == [tag |-> "path", path |-> p, bytes |-> -1, mtime |-> -1]
NoPathItem == [tag |-> "nopath", path |-> <<>>, bytes |-> -1, mtime |-> -1]
NullItem == [tag |-> "null", path |-> <<>>, bytes |-> -1, mtime |-> -1]

CacheFile == HOME \o <<"Library", "Caches", "a.bin">>
DocFile == HOME \o <<"Documents", "x.txt">>
DocFileDotted == HOME \o <<"Library", "..", "Documents", "x.txt">>
DocDir == HOME \o <<"Documents">>
HomeSlash == HOME \o <<"">>
EscapeFile == HOME \o <<"..", "..", "etc", "passwd">>
OutsideFile == <<"etc", "passwd">>
BundleDir == HOME \o <<"Trip.photoslibrary">>
LinkPath == HOME \o <<"Library", "Caches", "lnk">>
ViaLink == HOME \o <<"Library", "Caches", "lnk", "x.txt">>
GonePath == HOME \o <<"Documents", "gone">>
\* A second file with the base name of CacheFile.
OtherBin == HOME \o <<"Library", "a.bin">>

\* A file below a root of two categories (user-caches walks ~/Library/Caches,
\* pkg walks ~/Library/Caches/npm), and a file whose name holds a newline.
NpmFile == HOME \o <<"Library", "Caches", "npm", "idx">>
TwoLineFile == HOME \o <<"Library", "Caches", "b\nc">>

\* A Homebrew cache outside home, as HOMEBREW_CACHE can place it.
BrewCacheOutside == <<"opt", "brewcache">>

PlanPaths ==
    { CacheFile, DocFile, DocFileDotted, DocDir, HOME, HomeSlash, EscapeFile,
      OutsideFile, BundleDir, LinkPath, ViaLink, GonePath, OtherBin }

PlanItems == { PathItem(p) : p \in PlanPaths } \cup { NoPathItem, NullItem }

SeqsUpTo(S, n) == UNION { [1..k -> S] : k \in 0..n }

\* The cache file was last written 300 seconds short of one day before the
\* clock of the model starts.
CacheFileMtime == 300 - 86400

InitFs ==
    { Dir(<<>>, 1), Dir(<<"Users">>, 2), Dir(HOME, 3),
      Dir(HOME \o <<"Library">>, 4), Dir(HOME \o <<"Library", "Caches">>, 5),
      [File(CacheFile, 5, 6) EXCEPT !.mtime = CacheFileMtime], File(OtherBin, 6, 19),
      Dir(Parent(NpmFile), 20), File(NpmFile, 8, 21), File(TwoLineFile, 2, 22),
      Link(LinkPath, DocDir, 7),
      Dir(DocDir, 8), File(DocFile, 3, 9),
      Dir(BundleDir, 10), File(BundleDir \o <<"db">>, 7, 11),
      Dir(<<"etc">>, 12), File(OutsideFile, 2, 13),
      Link(HOME \o <<"Downloads">>, <<"etc">>, 15),
      Dir(<<"opt">>, 16), Dir(BrewCacheOutside, 17), File(BrewCacheOutside \o <<"pkg.tgz">>, 6, 18) }

\* The same with a trash that already holds an entry named like the cache file.
InitFsTrash ==
    InitFs \cup { Dir(HOME \o <<".Trash">>, 0), File(HOME \o <<".Trash", "a.bin">>, 4, 14) }

InitFss == { InitFs, InitFsTrash }

-----------------------------------------------------------------------------
(* Apply, server: applyHandler *)

Detail(p, status, reason, bytes, dest) ==
    [path |-> p, status |-> status, reason |-> reason, bytes |-> bytes, dest |-> dest]

\* The body as readJsonBody returns it: null for an empty or unparseable
\* body (JSON.parse throws on a list of bare paths), else the parsed value.
readJsonBody(body) ==
    IF body.kind \in {"empty", "garbage", "text"} THEN [isNull |-> TRUE, hasItems |-> FALSE, items |-> <<>>]
    ELSE [isNull |-> FALSE, hasItems |-> body.kind = "plan", items |-> body.items]

\* applyChecks with the dry-run test lost: a dry run goes on to mutate.
applyChecks_NoDry(fsv, p, dryRun) ==
    IF p = <<>> \/ ~existsSync(fsv, p) THEN "missing"
    ELSE IF ~ensureHomeScoped(p) THEN "outside_home"
    ELSE IF isDenyListed(p) THEN "deny_listed"
    ELSE "mutate"

\* applyChecks with the dry-run test moved ahead of the deny-list test.
applyChecks_DryFirst(fsv, p, dryRun) ==
    IF p = <<>> \/ ~existsSync(fsv, p) THEN "missing"
    ELSE IF ~ensureHomeScoped(p) THEN "outside_home"
    ELSE IF dryRun THEN "dry"
    ELSE IF isDenyListed(p) THEN "deny_listed"
    ELSE "mutate"

\* The checks at the head of the loop body, in the order of the code.
applyChecks(fsv, p, dryRun) ==
    IF p = <<>> \/ ~existsSync(fsv, p) THEN "missing"
    ELSE IF ~ensureHomeScoped(p) THEN "outside_home"
    ELSE IF isDenyListed(p) THEN "deny_listed"
    ELSE IF dryRun THEN "dry"
    ELSE "mutate"

\* The bytes of an item taken from the plan when the item carries them.
itemBytes_FromPlan(fsv, it) ==
    LET st == stat(fsv, it.path)
    IN IF it.bytes >= 0 THEN it.bytes
       ELSE IF st.ok THEN EntryAt(fsv, st.path).size ELSE 0

\* const bytes = st ? Number(st.size) || 0 : 0, st being fs.statSync(p) or null.
itemBytes(fsv, it) ==
    LET st == stat(fsv, it.path)
    IN IF st.ok THEN EntryAt(fsv, st.path).size ELSE 0

\* applyItem with the catch block pushing nothing.
applyItem_SilentCatch(fsv, it, dryRun, mode, nowv, ioFails) ==
    LET p == it.path
        check == applyChecks(fsv, p, dryRun)
        st == stat(fsv, p)
        bytes == itemBytes(fsv, it)
        isDirectory == st.ok /\ KindAt(fsv, st.path) = "dir"
        rm == remove(fsv, p, isDirectory, TRUE, ioFails)
        tr == safeTrashMove(fsv, p, nowv, ioFails)
    IN CASE check = "missing" ->
              [fs |-> fsv, pushed |-> <<Detail(p, "missing", "", 0, <<>>)>>, bytes |-> 0, count |-> 0]
         [] check = "outside_home" ->
              [fs |-> fsv, pushed |-> <<Detail(p, "skipped", "outside_home", 0, <<>>)>>, bytes |-> 0, count |-> 0]
         [] check = "deny_listed" ->
              [fs |-> fsv, pushed |-> <<Detail(p, "skipped", "deny_listed", 0, <<>>)>>, bytes |-> 0, count |-> 0]
         [] check = "dry" ->
              [fs |-> fsv, pushed |-> <<Detail(p, "dry", "", bytes, <<>>)>>, bytes |-> bytes, count |-> 1]
         [] check = "mutate" /\ mode = "delete" ->
              IF rm.ok
              THEN [fs |-> rm.fs, pushed |-> <<Detail(p, "deleted", "", bytes, <<>>)>>, bytes |-> bytes, count |-> 1]
              ELSE [fs |-> rm.fs, pushed |-> <<>>, bytes |-> 0, count |-> 0]
         [] check = "mutate" /\ mode # "delete" ->
              IF tr.ok
              THEN [fs |-> tr.fs, pushed |-> <<Detail(p, "trashed", "", bytes, tr.dest)>>, bytes |-> bytes, count |-> 1]
              ELSE [fs |-> tr.fs, pushed |-> <<>>, bytes |-> 0, count |-> 0]

\* One iteration of the loop over plan.items: [fs, pushed, bytes, count], pushed being the details it pushes.
applyItem(fsv, it, dryRun, mode, nowv, ioFails) ==
    LET p == it.path
        check == applyChecks(fsv, p, dryRun)
        st == stat(fsv, p)
        bytes == itemBytes(fsv, it)
        isDirectory == st.ok /\ KindAt(fsv, st.path) = "dir"
        rm == remove(fsv, p, isDirectory, TRUE, ioFails)
        tr == safeTrashMove(fsv, p, nowv, ioFails)
    IN CASE check = "missing" ->
              [fs |-> fsv, pushed |-> <<Detail(p, "missing", "", 0, <<>>)>>, bytes |-> 0, count |-> 0]
         [] check = "outside_home" ->
              [fs |-> fsv, pushed |-> <<Detail(p, "skipped", "outside_home", 0, <<>>)>>, bytes |-> 0, count |-> 0]
         [] check = "deny_listed" ->
              [fs |-> fsv, pushed |-> <<Detail(p, "skipped", "deny_listed", 0, <<>>)>>, bytes |-> 0, count |-> 0]
         [] check = "dry" ->
              [fs |-> fsv, pushed |-> <<Detail(p, "dry", "", bytes, <<>>)>>, bytes |-> bytes, count |-> 1]
         [] check = "mutate" /\ mode = "delete" ->
              IF rm.ok
              THEN [fs |-> rm.fs, pushed |-> <<Detail(p, "deleted", "", bytes, <<>>)>>, bytes |-> bytes, count |-> 1]
              ELSE [fs |-> rm.fs, pushed |-> <<Detail(p, "error", "", 0, <<>>)>>, bytes |-> 0, count |-> 0]
         [] check = "mutate" /\ mode # "delete" ->
              IF tr.ok
              THEN [fs |-> tr.fs, pushed |-> <<Detail(p, "trashed", "", bytes, tr.dest)>>, bytes |-> bytes, count |-> 1]
              ELSE [fs |-> tr.fs, pushed |-> <<Detail(p, "error", "", 0, <<>>)>>, bytes |-> 0, count |-> 0]

(* Apply, CLI: apply_plan *)

\* stat -f "%z" "$f" 2>/dev/null || echo 0: the size of the entry itself.
stat_bytes(fsv, f) ==
    LET s == lstat(fsv, f)
    IN IF s.ok THEN EntryAt(fsv, s.path).size ELSE 0

\* One iteration of the while-read loop: [fs, pushed, bytes, count], pushed being the details it pushes.
apply_plan_item(fsv, p, DRY_RUN, USE_TRASH, nowv, ioFails) ==
    LET sz == stat_bytes(fsv, p)
        tr == safe_trash(fsv, p, nowv, ioFails)
        rm == remove(fsv, p, TRUE, TRUE, ioFails)
    IN IF ~existsSync(fsv, p)
       THEN [fs |-> fsv, pushed |-> <<Detail(p, "Missing", "", 0, <<>>)>>, bytes |-> 0, count |-> 0]
       ELSE IF ~ensure_home_scope(p)
       THEN [fs |-> fsv, pushed |-> <<Detail(p, "Outside HOME, skipping", "", 0, <<>>)>>, bytes |-> 0, count |-> 0]
       ELSE IF deny_listed(p)
       THEN [fs |-> fsv, pushed |-> <<Detail(p, "Deny-listed, skipping", "", 0, <<>>)>>, bytes |-> 0, count |-> 0]
       ELSE IF DRY_RUN = 1
       THEN [fs |-> fsv, pushed |-> <<Detail(p, "[DRY] Would remove", "", sz, <<>>)>>, bytes |-> sz, count |-> 1]
       ELSE IF USE_TRASH = 1
       THEN [fs |-> tr.fs,
             pushed |-> <<Detail(p, IF tr.ok THEN "Trashed" ELSE "Failed to trash", "", sz, tr.dest)>>,
             bytes |-> sz, count |-> 1]
       ELSE [fs |-> rm.fs,
             pushed |-> <<Detail(p, IF rm.ok THEN "Deleted" ELSE "Failed to delete", "", sz, <<>>)>>,
             bytes |-> sz, count |-> 1]

-----------------------------------------------------------------------------
(* Scan, server: walkCollect, scanHandler *)

SCAN_CACHE_TTL_MS == 5 * 60 * 1000
DEFAULT_MIN_BYTES == 50 * 1024 * 1024
DEFAULT_OLDER_DAYS == 30

RECURSIVE SetToSeq(_)
SetToSeq(S) ==
    IF S = {} THEN <<>>
    ELSE LET x == CHOOSE y \in S : TRUE IN <<x>> \o SetToSeq(S \ {x})

\* fsp.readdir(dir): the names in the directory dir leads to, in the
\* directory's order; <<>> where the call throws.
readdir(fsv, dir) ==
    LET d == stat(fsv, dir)
    IN IF ~d.ok \/ KindAt(fsv, d.path) # "dir" THEN <<>>
       ELSE SetToSeq({ e.path[Len(e.path)] : e \in { x \in fsv : Parent(x.path) = d.path /\ x.path # <<>> } })

Item(full, e, category, reason) ==
    [path |-> full, bytes |-> e.size, mtime |-> e.mtime, category |-> category,
     reason |-> reason, trashable |-> TRUE]

\* The calls of a walk that fail: io.readdir holds the directories on which
\* fsp.readdir rejects (permission denied), io.lstat the entries on which
\* fsp.lstat rejects (vanished since its directory was read).
NoFaults == [readdir |-> {}, lstat |-> {}]

\* walkCollect with the try around the loop over the entries instead of around
\* each entry: the first lstat that fails ends the directory.
RECURSIVE walkStack_AbortDir(_, _, _, _, _, _, _)
walkStack_AbortDir(fsv, stack, opts, nowv, reason, category, io) ==
    IF stack = <<>> THEN <<>>
    ELSE LET current == stack[Len(stack)]
             rest == SubSeq(stack, 1, Len(stack) - 1)
             ents == IF current \in io.readdir THEN <<>> ELSE readdir(fsv, current)
             all == [k \in 1..Len(ents) |-> resolve(current \o <<ents[k]>>)]
             failing == { k \in 1..Len(all) :
                            ensureHomeScoped(all[k]) /\ ~isDenyListed(all[k]) /\ all[k] \in io.lstat }
             fulls == IF failing = {} THEN all
                      ELSE SubSeq(all, 1, (CHOOSE k \in failing : \A j \in failing : k <= j) - 1)
             seen(full) == ensureHomeScoped(full) /\ ~isDenyListed(full) /\ lstat(fsv, full).ok
             st(full) == EntryAt(fsv, lstat(fsv, full).path)
             kept(full) ==
                 /\ seen(full) /\ st(full).kind = "file"
                 /\ ~(opts.minBytes # 0 /\ st(full).size < opts.minBytes)
                 /\ ~(opts.olderDays > 0 /\ nowv - st(full).mtime < opts.olderDays * 86400)
             dirs == SelectSeq(fulls, LAMBDA f : seen(f) /\ st(f).kind = "dir")
             files == SelectSeq(fulls, kept)
         IN [k \in 1..Len(files) |-> Item(files[k], st(files[k]), category, reason)]
            \o walkStack_AbortDir(fsv, rest \o dirs, opts, nowv, reason, category, io)

\* One turn of walkCollect's while loop without the skip of symbolic links: a
\* link to a directory is pushed as the directory it leads to.
walkIter_FollowLinks(fsv, stack, opts, nowv, reason, category, io) ==
    LET current == stack[Len(stack)]
        rest == SubSeq(stack, 1, Len(stack) - 1)
        ents == IF current \in io.readdir THEN <<>> ELSE readdir(fsv, current)
        fulls == [k \in 1..Len(ents) |-> resolve(current \o <<ents[k]>>)]
        seen(full) ==
            /\ ensureHomeScoped(full) /\ ~isDenyListed(full)
            /\ full \notin io.lstat /\ lstat(fsv, full).ok
        st(full) == EntryAt(fsv, lstat(fsv, full).path)
        kept(full) ==
            /\ seen(full) /\ st(full).kind = "file"
            /\ ~(opts.minBytes # 0 /\ st(full).size < opts.minBytes)
            /\ ~(opts.olderDays > 0 /\ nowv - st(full).mtime < opts.olderDays * 86400)
        dirs == SelectSeq(fulls, LAMBDA f :
                    /\ seen(f)
                    /\ \/ st(f).kind = "dir"
                       \/ st(f).kind = "link" /\ KindAt(fsv, st(f).target) = "dir")
        files == SelectSeq(fulls, kept)
    IN [stack |-> rest \o dirs, read |-> current,
        items |-> [k \in 1..Len(files) |-> Item(files[k], st(files[k]), category, reason)]]

\* One turn of walkCollect's while loop on a stack that is not empty: the
\* directory popped and read, the stack and the items pushed after it.
\* A readdir that rejects skips the directory, an lstat that rejects the entry.
walkIter(fsv, stack, opts, nowv, reason, category, io) ==
    LET current == stack[Len(stack)]
        rest == SubSeq(stack, 1, Len(stack) - 1)
        ents == IF current \in io.readdir THEN <<>> ELSE readdir(fsv, current)
        fulls == [k \in 1..Len(ents) |-> resolve(current \o <<ents[k]>>)]
        seen(full) ==
            /\ ensureHomeScoped(full) /\ ~isDenyListed(full)
            /\ full \notin io.lstat /\ lstat(fsv, full).ok
        st(full) == EntryAt(fsv, lstat(fsv, full).path)
        kept(full) ==
            /\ seen(full) /\ st(full).kind = "file"
            /\ ~(opts.minBytes # 0 /\ st(full).size < opts.minBytes)
            /\ ~(opts.olderDays > 0 /\ nowv - st(full).mtime < opts.olderDays * 86400)
        dirs == SelectSeq(fulls, LAMBDA f : seen(f) /\ st(f).kind = "dir")
        files == SelectSeq(fulls, kept)
    IN [stack |-> rest \o dirs, read |-> current,
        items |-> [k \in 1..Len(files) |-> Item(files[k], st(files[k]), category, reason)]]

\* The loop of walkCollect from the stack given: the items pushed, in order.
RECURSIVE walkStack(_, _, _, _, _, _, _)
walkStack(fsv, stack, opts, nowv, reason, category, io) ==
    IF stack = <<>> THEN <<>>
    ELSE LET turn == walkIter(fsv, stack, opts, nowv, reason, category, io)
         IN turn.items \o walkStack(fsv, turn.stack, opts, nowv, reason, category, io)

walkCollect(fsv, baseDir, opts, nowv, reason, category, io) ==
    walkStack(fsv, <<baseDir>>, opts, nowv, reason, category, io)

\* listDirs(dir): the immediate subdirectories, by the entries' own type.
listDirs(fsv, dir) ==
    LET names == readdir(fsv, dir)
        fulls == [k \in 1..Len(names) |-> resolve(dir \o <<names[k]>>)]
    IN SelectSeq(fulls, LAMBDA f : lstat(fsv, f).ok /\ KindAt(fsv, lstat(fsv, f).path) = "dir")

Root(dir, reason, category) == [dir |-> dir, reason |-> reason, category |-> category]

\* The directories scanHandler walks for the categories cats, in the order it
\* walks them.  brew is what the Homebrew probe gives: found, and the cache
\* path "brew --cache" prints.
scanRoots(fsv, cats, brew) ==
    LET has(c) == \E k \in 1..Len(cats) : cats[k] = c
        lib == HOME \o <<"Library">>
        under(base, sub, reason) ==
            LET ds == listDirs(fsv, base)
            IN IF existsSync(fsv, base)
               THEN [k \in 1..Len(ds) |-> Root(ds[k] \o sub, reason, "deep")]
               ELSE <<>>
    IN (IF has("user-caches") THEN <<Root(lib \o <<"Caches">>, "User Library cache", "user-caches")>> ELSE <<>>)
       \o (IF has("browsers")
           THEN <<Root(lib \o <<"Caches", "com.apple.Safari">>, "Browser cache", "browsers"),
                  Root(lib \o <<"Caches", "Google", "Chrome">>, "Browser cache", "browsers"),
                  Root(lib \o <<"Caches", "Microsoft Edge">>, "Browser cache", "browsers"),
                  Root(lib \o <<"Caches", "Firefox", "Profiles">>, "Browser cache", "browsers")>>
           ELSE <<>>)
       \o (IF has("dev")
           THEN <<Root(lib \o <<"Developer", "Xcode", "DerivedData">>, "Developer cache", "dev"),
                  Root(lib \o <<"Developer", "Xcode", "iOS DeviceSupport">>, "Developer cache", "dev"),
                  Root(lib \o <<"Developer", "CoreSimulator", "Caches">>, "Developer cache", "dev")>>
           ELSE <<>>)
       \o (IF has("pkg")
           THEN (IF brew.found /\ brew.cache # <<>>
                 THEN <<Root(brew.cache, "Homebrew cache", "pkg")>> ELSE <<>>)
                \o <<Root(HOME \o <<".npm", "_cacache">>, "Package manager cache", "pkg"),
                     Root(lib \o <<"Caches", "npm">>, "Package manager cache", "pkg"),
                     Root(lib \o <<"Caches", "Yarn">>, "Package manager cache", "pkg"),
                     Root(lib \o <<"pnpm", "store">>, "Package manager cache", "pkg"),
                     Root(lib \o <<"Caches", "pnpm">>, "Package manager cache", "pkg"),
                     Root(HOME \o <<".cache", "pip">>, "Package manager cache", "pkg"),
                     Root(lib \o <<"Caches", "pip">>, "Package manager cache", "pkg"),
                     Root(HOME \o <<".cache", "pipx">>, "Package manager cache", "pkg")>>
           ELSE <<>>)
       \o (IF has("downloads") THEN <<Root(HOME \o <<"Downloads">>, "Downloads item", "downloads")>> ELSE <<>>)
       \o (IF has("deep")
           THEN under(lib \o <<"Containers">>, <<"Data", "Library", "Caches">>, "App container cache")
                \o under(lib \o <<"Developer", "CoreSimulator", "Devices">>, <<"data", "Library", "Caches">>,
                         "Simulator device cache")
                \o <<Root(lib \o <<"Developer", "Xcode", "Archives">>, "Xcode archive content", "deep"),
                     Root(lib \o <<"Logs">>, "Logs", "deep")>>
           ELSE <<>>)


RECURSIVE collectRoots(_, _, _, _, _)
collectRoots(fsv, roots, opts, nowv, io) ==
    IF roots = <<>> THEN <<>>
    ELSE LET r == Head(roots)
         IN (IF existsSync(fsv, r.dir)
             THEN walkCollect(fsv, r.dir, opts, nowv, r.reason, r.category, io)
             ELSE <<>>)
            \o collectRoots(fsv, Tail(roots), opts, nowv, io)

Includes(seq, x) == \E k \in 1..Len(seq) : seq[k] = x

\* Number(s) for the query values used: NaN for a missing or non-numeric one.
NumberOf(s) ==
    CASE s = "0" -> [finite |-> TRUE, n |-> 0]
      [] s = "" -> [finite |-> TRUE, n |-> 0]
      [] s = "4" -> [finite |-> TRUE, n |-> 4]
      [] s = "1" -> [finite |-> TRUE, n |-> 1]
      [] s = "1024" -> [finite |-> TRUE, n |-> 1024]
      [] OTHER -> [finite |-> FALSE, n |-> 0]

\* String.prototype.trim on the names used: blanks around a name go.
trim(s) ==
    CASE s = " dev" -> "dev" [] s = " pkg" -> "pkg" [] s = " " -> "" [] OTHER -> s

\* value.split(',').map(s => s.trim()).filter(Boolean) on the fields of a
\* list parameter: the non-empty trimmed names.  A value that is absent or
\* blank gives undefined, which scanHandler treats as it treats no name.
splitNames(fields) ==
    SelectSeq([k \in 1..Len(fields) |-> trim(fields[k])], LAMBDA n : n # "")

\* parseQuery with the mode test turned round: delete unless mode is 'trash'.
parseQuery_DeleteUnlessTrash(q) ==
    [minSize |-> [def |-> NumberOf(q.minSize).finite, n |-> NumberOf(q.minSize).n],
     olderThan |-> [def |-> NumberOf(q.olderThan).finite, n |-> NumberOf(q.olderThan).n],
     include |-> splitNames(q.include),
     exclude |-> splitNames(q.exclude),
     downloads |-> q.downloads \in {"1", "true"},
     dryRun |-> q.dryRun \in {"1", "true"},
     mode |-> IF q.mode = "trash" THEN "trash" ELSE "delete"]

\* parseQuery.  A query gives minSize, olderThan, downloads, dryRun and mode as
\* the strings of the URL ("absent" when the parameter is not there) and
\* include, exclude as the fields their values hold between the commas (<<>>
\* when absent or empty).  In the result, def is false for undefined and
\* include, exclude are lists of names, <<>> for undefined.
parseQuery(q) ==
    [minSize |-> [def |-> NumberOf(q.minSize).finite, n |-> NumberOf(q.minSize).n],
     olderThan |-> [def |-> NumberOf(q.olderThan).finite, n |-> NumberOf(q.olderThan).n],
     include |-> splitNames(q.include),
     exclude |-> splitNames(q.exclude),
     downloads |-> q.downloads \in {"1", "true"},
     dryRun |-> q.dryRun \in {"1", "true"},
     mode |-> IF q.mode = "delete" THEN "delete" ELSE "trash"]

\* Array.prototype.sort's default order on the category names.
SortRank(c) ==
    CASE c = "browsers" -> 1 [] c = "deep" -> 2 [] c = "dev" -> 3 [] c = "docker" -> 4
      [] c = "downloads" -> 5 [] c = "pkg" -> 6 [] c = "user-caches" -> 7 [] OTHER -> 8

RECURSIVE Sorted(_)
Sorted(seq) ==
    IF seq = <<>> THEN <<>>
    ELSE LET m == CHOOSE k \in 1..Len(seq) :
                      \A j \in 1..Len(seq) : SortRank(seq[k]) < SortRank(seq[j]) \/ (SortRank(seq[k]) = SortRank(seq[j]) /\ k <= j)
         IN <<seq[m]>> \o Sorted(SubSeq(seq, 1, m - 1) \o SubSeq(seq, m + 1, Len(seq)))

\* The categories scanHandler settles on.
scanCats(q) ==
    LET base == <<"user-caches", "browsers", "dev", "pkg">>
                \o (IF q.downloads THEN <<"downloads">> ELSE <<>>)
        cats == IF q.include # <<>> THEN q.include ELSE base
    IN IF q.exclude # <<>> THEN SelectSeq(cats, LAMBDA c : ~Includes(q.exclude, c)) ELSE cats

Totals(items) ==
    [count |-> Len(items),
     bytes |-> LET sum[k \in 0..Len(items)] == IF k = 0 THEN 0 ELSE sum[k - 1] + items[k].bytes
               IN sum[Len(items)]]

\* An entry of scanCache is younger than the time-to-live: Date.now() - ts, in
\* milliseconds, against SCAN_CACHE_TTL_MS; the clock of the model counts seconds.
ttlValid_AtTtl(c, nowv) == (nowv - c.ts) * 1000 <= SCAN_CACHE_TTL_MS

ttlValid(c, nowv) == (nowv - c.ts) * 1000 < SCAN_CACHE_TTL_MS

\* scanCache.clear() keeping what it finds.
scanCache_clear_Nothing(cache) == cache

\* scanCache.clear()
scanCache_clear(cache) == {}

NoKey == [minBytes |-> -1, olderDays |-> -1, cats |-> <<>>, downloads |-> FALSE]

NoReport ==
    [generatedAt |-> -1, home |-> <<>>, totals |-> [count |-> 0, bytes |-> 0],
     categories |-> <<>>, items |-> <<>>]

\* The cache key without the minimum age.
cacheKey_NoAge(minBytes, olderDays, cats, downloads) ==
    [minBytes |-> minBytes, olderDays |-> 0, cats |-> Sorted(cats), downloads |-> downloads]

\* The cacheKey of a request (JSON.stringify of these four).
cacheKey(minBytes, olderDays, cats, downloads) ==
    [minBytes |-> minBytes, olderDays |-> olderDays, cats |-> Sorted(cats), downloads |-> downloads]

\* scanHandler: [cache, code, body, fresh, key]; fresh tells a walk from a
\* cache hit, key is the cacheKey of the request.
scanHandler(fsv, cache, nowv, query, brew, io) ==
    LET q == parseQuery(query)
        minBytes == IF q.minSize.def THEN q.minSize.n ELSE DEFAULT_MIN_BYTES
        olderDays == IF q.olderThan.def THEN q.olderThan.n ELSE DEFAULT_OLDER_DAYS
        cats == scanCats(q)
        key == cacheKey(minBytes, olderDays, cats, q.downloads)
        hit == { c \in cache : c.key = key /\ ttlValid(c, nowv) }
        items == collectRoots(fsv, scanRoots(fsv, cats, brew),
                              [minBytes |-> minBytes, olderDays |-> olderDays], nowv, io)
        body == [generatedAt |-> nowv, home |-> HOME, totals |-> Totals(items),
                 categories |-> cats, items |-> items]
    IN IF hit # {}
       THEN [cache |-> cache, code |-> 200, body |-> (CHOOSE c \in hit : TRUE).body,
             fresh |-> FALSE, key |-> key]
       ELSE [cache |-> { c \in cache : c.key # key }
                       \cup { [key |-> key, ts |-> nowv, body |-> body] },
             code |-> 200, body |-> body, fresh |-> TRUE, key |-> key]

-----------------------------------------------------------------------------
(* Scan, CLI: collect_*, scan *)

\* find -x root -type f <filters> -print0 from the paths given: the regular
\* files at and below them, symbolic links not followed.
\* build_find_filters with find's reading of them: -size +N[kMG] is strictly
\* more than N units (512-byte blocks, rounded up, without a unit), -mtime +D
\* strictly more than D days, the age rounded up to whole days.
find_filters(MIN_SIZE, OLDER_THAN, nowv, e) ==
    LET scale == CASE MIN_SIZE.unit = "k" -> 1024
                   [] MIN_SIZE.unit = "M" -> 1024 * 1024
                   [] MIN_SIZE.unit = "G" -> 1024 * 1024 * 1024
                   [] OTHER -> 512
        blocks == (e.size + 511) \div 512
        days == ((nowv - e.mtime) + 86399) \div 86400
    IN /\ MIN_SIZE.set =>
            IF MIN_SIZE.unit = "" THEN blocks > MIN_SIZE.n ELSE e.size > MIN_SIZE.n * scale
       /\ OLDER_THAN.set => days > OLDER_THAN.n

\* find -x root -type f <filters> -print0 from the paths given: the regular
\* files at and below them, symbolic links not followed.
RECURSIVE find(_, _, _, _)
find(fsv, paths, args, nowv) ==
    IF paths = <<>> THEN <<>>
    ELSE LET p == Head(paths)
             s == lstat(fsv, p)
             kind == IF s.ok THEN KindAt(fsv, s.path) ELSE "none"
             names == readdir(fsv, p)
         IN (IF kind = "file" /\ find_filters(args.MIN_SIZE, args.OLDER_THAN, nowv, EntryAt(fsv, s.path))
             THEN <<p>> ELSE <<>>)
            \o (IF kind = "dir"
                THEN find(fsv, [k \in 1..Len(names) |-> p \o <<names[k]>>], args, nowv)
                ELSE <<>>)
            \o find(fsv, Tail(paths), args, nowv)

\* IFS=',' read -r -a: the fields of a comma list, as they are spelled; an
\* empty field at the end is dropped.
read_a(fields) ==
    IF fields # <<>> /\ fields[Len(fields)] = ""
    THEN SubSeq(fields, 1, Len(fields) - 1) ELSE fields

\* The list out grows into: a field replaces out while out is empty, and is
\* appended after a comma from then on.
RECURSIVE joined(_)
joined(fields) ==
    IF fields # <<>> /\ Head(fields) = "" THEN joined(Tail(fields)) ELSE fields

\* effective_categories.  INCLUDE_CATS and EXCLUDE_CATS are the fields the
\* option's value holds between the commas, <<>> for the empty string.
effective_categories(args) ==
    LET base == <<"user-caches", "browsers", "dev", "pkg">>
                \o (IF args.ENABLE_DOWNLOADS = 1 THEN <<"downloads">> ELSE <<>>)
                \o (IF args.ENABLE_DOCKER = 1 THEN <<"docker">> ELSE <<>>)
        cats == IF args.INCLUDE_CATS # <<>> THEN args.INCLUDE_CATS ELSE base
        ex == read_a(args.EXCLUDE_CATS)
    IN IF args.EXCLUDE_CATS # <<>>
       THEN joined(SelectSeq(read_a(cats), LAMBDA c : ~Includes(ex, c)))
       ELSE cats

\* The directories the collect_* functions search for the category c.
collect_roots(c, brew) ==
    LET lib == HOME \o <<"Library">>
    IN CASE c = "user-caches" -> <<Root(lib \o <<"Caches">>, "User Library cache", c)>>
         [] c = "browsers" ->
              <<Root(lib \o <<"Caches", "com.apple.Safari">>, "Browser cache", c),
                Root(lib \o <<"Caches", "Google", "Chrome">>, "Browser cache", c),
                Root(lib \o <<"Caches", "Microsoft Edge">>, "Browser cache", c),
                Root(lib \o <<"Caches", "Firefox", "Profiles">>, "Browser cache", c)>>
         [] c = "dev" ->
              <<Root(lib \o <<"Developer", "Xcode", "DerivedData">>, "Developer cache", c),
                Root(lib \o <<"Developer", "Xcode", "iOS DeviceSupport">>, "Developer cache", c),
                Root(lib \o <<"Developer", "CoreSimulator", "Caches">>, "Developer cache", c)>>
         [] c = "pkg" ->
              (IF brew.found /\ brew.cache # <<>>
               THEN <<Root(brew.cache, "Homebrew cache", c)>> ELSE <<>>)
              \o <<Root(HOME \o <<".npm", "_cacache">>, "Package manager cache", c),
                   Root(lib \o <<"Caches", "npm">>, "Package manager cache", c),
                   Root(lib \o <<"Caches", "Yarn">>, "Package manager cache", c),
                   Root(lib \o <<"pnpm", "store">>, "Package manager cache", c),
                   Root(lib \o <<"Caches", "pnpm">>, "Package manager cache", c),
                   Root(HOME \o <<".cache", "pip">>, "Package manager cache", c),
                   Root(lib \o <<"Caches", "pip">>, "Package manager cache", c),
                   Root(HOME \o <<".cache", "pipx">>, "Package manager cache", c)>>
         [] c = "downloads" -> <<Root(HOME \o <<"Downloads">>, "Downloads item", c)>>
         [] OTHER -> <<>>

\* One collector run over its roots: [ -d root ] then find, an item per file.
RECURSIVE collect(_, _, _, _)
collect(fsv, roots, args, nowv) ==
    IF roots = <<>> THEN <<>>
    ELSE LET r == Head(roots)
             d == stat(fsv, r.dir)
             files == find(fsv, <<r.dir>>, args, nowv)
         IN (IF d.ok /\ KindAt(fsv, d.path) = "dir"
             THEN [k \in 1..Len(files) |->
                      Item(files[k], EntryAt(fsv, lstat(fsv, files[k]).path), r.category, r.reason)]
             ELSE <<>>)
            \o collect(fsv, Tail(roots), args, nowv)

\* The names, among those of the model, that hold a newline character.
TwoLineNames == { "b\nc" }

\* The lines add_item_json appends to ITEMS_FILE for one item: json_escape is a
\* sed script, sed works line by line, so a newline in the path stays one.
item_lines(item) ==
    LET n[k \in 0..Len(item.path)] ==
            IF k = 0 THEN 1 ELSE n[k - 1] + (IF item.path[k] \in TwoLineNames THEN 1 ELSE 0)
    IN n[Len(item.path)]

\* count=$(wc -l <"$ITEMS_FILE"); bytes_total: the sum of the "bytes" values
\* found line by line, 0 for a line without one.
scan_totals(items) ==
    LET lines[k \in 0..Len(items)] == IF k = 0 THEN 0 ELSE lines[k - 1] + item_lines(items[k])
    IN [count |-> lines[Len(items)], bytes |-> Totals(items).bytes]

\* The thresholds build_find_filters passes to find, as a record of the shape
\* of the server's cache key: 0 where a filter is not set.
scan_key(args) ==
    LET scale == CASE args.MIN_SIZE.unit = "k" -> 1024
                   [] args.MIN_SIZE.unit = "M" -> 1024 * 1024
                   [] OTHER -> 512
    IN [minBytes |-> IF args.MIN_SIZE.set THEN args.MIN_SIZE.n * scale ELSE 0,
        olderDays |-> IF args.OLDER_THAN.set THEN args.OLDER_THAN.n ELSE 0,
        cats |-> effective_categories(args), downloads |-> args.ENABLE_DOWNLOADS = 1]

\* scan: the report written to the output file.
scan(fsv, args, nowv, brew) ==
    LET cats == effective_categories(args)
        arr == read_a(cats)
        roots[k \in 0..Len(arr)] ==
            IF k = 0 THEN <<>> ELSE roots[k - 1] \o collect_roots(arr[k], brew)
        items == collect(fsv, roots[Len(arr)], args, nowv)
    IN [generatedAt |-> nowv, home |-> HOME, totals |-> scan_totals(items),
        categories |-> cats, items |-> items]

-----------------------------------------------------------------------------
(* Browser page: the UI of script.js *)

\* A file named as the Finder names a folder's custom icon: "Icon" and a
\* carriage return.
IconFile == HOME \o <<"Library", "Caches", "Icon\r">>

\* What tr.getAttribute("data-path") gives for a path that renderTable wrote
\* into the markup of a row: escapeHtmlAttr replaces & < > " ', the parser
\* behind innerHTML turns those back and, before that, normalises newlines,
\* so a carriage return comes back as a line feed.
attrName(n) == IF n = "Icon\r" THEN "Icon\n" ELSE n

dataPath(p) == [k \in 1..Len(p) |-> attrName(p[k])]

\* normalizeItems.  An item of a report has every field; category is "" where
\* the report gives none.
normalizeItems(items) ==
    [k \in 1..Len(items) |->
        [items[k] EXCEPT !.category = IF @ = "" THEN "-" ELSE @, !.trashable = (@ # FALSE)]]

\* hay.includes(part) for the search words used, hay being the path and the
\* reason of the item.
hayIncludes(it, part) == part = "npm" /\ Includes(it.path, "npm")

\* The words of a search text.
searchParts(search) == IF search = "" THEN <<>> ELSE <<search>>

\* applyFilters: state.filtered
applyFilters(u, nowv) ==
    LET cutoff == IF u.olderDays > 0 THEN nowv - u.olderDays * 86400 ELSE 0
        parts == searchParts(u.search)
        passes(it) ==
            /\ it.category \in u.categoriesEnabled
            /\ ~(it.bytes < u.minBytes)
            /\ ~(cutoff # 0 /\ it.mtime > cutoff)
            /\ \A k \in 1..Len(parts) : hayIncludes(it, parts[k])
    IN SelectSeq(u.items, passes)

\* The order localeCompare gives the names of the model.
NameRank(n) ==
    CASE n = "a.bin" -> 1 [] n = "Icon\r" -> 2 [] n = "npm" -> 3 [] OTHER -> 4

\* a.localeCompare(b) < 0 on two paths.
RECURSIVE PathLess(_, _)
PathLess(p, q) ==
    IF p = <<>> THEN q # <<>>
    ELSE IF q = <<>> THEN FALSE
    ELSE IF Head(p) = Head(q) THEN PathLess(Tail(p), Tail(q))
    ELSE NameRank(Head(p)) < NameRank(Head(q))

\* The comparator of doSort is negative on (a, b), for the keys "bytes" and
\* "path".
sortsBefore(key, dir, a, b) ==
    IF key = "bytes" /\ a.bytes # b.bytes
    THEN (IF dir = "asc" THEN a.bytes < b.bytes ELSE b.bytes < a.bytes)
    ELSE (IF dir = "asc" THEN PathLess(a.path, b.path) ELSE PathLess(b.path, a.path))

\* Array.prototype.sort with that comparator: stable.
RECURSIVE sortItems(_, _, _)
sortItems(arr, key, dir) ==
    IF arr = <<>> THEN <<>>
    ELSE LET m == CHOOSE k \in 1..Len(arr) :
                      /\ \A j \in 1..Len(arr) : ~sortsBefore(key, dir, arr[j], arr[k])
                      /\ \A j \in 1..(k - 1) : sortsBefore(key, dir, arr[j], arr[k])
                                               \/ sortsBefore(key, dir, arr[k], arr[j])
         IN <<arr[m]>> \o sortItems(SubSeq(arr, 1, m - 1) \o SubSeq(arr, m + 1, Len(arr)), key, dir)

\* doSort: state.sorted, from state.filtered
doSort(u) ==
    LET arr == sortItems(u.filtered, u.sortKey, u.sortDir)
    IN IF u.topN > 0 /\ u.topN < Len(arr) THEN SubSeq(arr, 1, u.topN) ELSE arr

\* renderTable: the rows of the table body, one for each item of state.sorted,
\* with the path in data-path, the checkbox disabled for an item that is not
\* trashable and checked for a selected one that is.
renderTable(u) ==
    [k \in 1..Len(u.sorted) |->
        [path |-> dataPath(u.sorted[k].path),
         disabled |-> ~u.sorted[k].trashable,
         checked |-> u.sorted[k].path \in u.selectedPaths /\ u.sorted[k].trashable]]

\* applyFilters(); doSort(); renderTable();
filtered(u, nowv) ==
    LET f == [u EXCEPT !.filtered = applyFilters(u, nowv)]
        d == [f EXCEPT !.sorted = doSort(f)]
    IN [d EXCEPT !.rows = renderTable(d)]

\* doSort(); renderTable();
sorted(u) ==
    LET d == [u EXCEPT !.sorted = doSort(u)]
    IN [d EXCEPT !.rows = renderTable(d)]

\* setRowSelected
setRowSelected(sel, path, selected) == IF selected THEN sel \cup {path} ELSE sel \ {path}

\* The loop of selectAllVisible, and of the toggle-all handler when it
\* unselects: every row whose checkbox is not disabled gets the state given.
setVisible(u, selected) ==
    [u EXCEPT !.rows = [k \in 1..Len(@) |-> IF @[k].disabled THEN @[k]
                                            ELSE [@[k] EXCEPT !.checked = selected]],
              !.selectedPaths =
                  LET paths == { u.rows[k].path : k \in { j \in 1..Len(u.rows) : ~u.rows[j].disabled } }
                  IN IF selected THEN @ \cup paths ELSE @ \ paths]

selectAllVisible(u) == setVisible(u, TRUE)

\* clearSelection
clearSelection(u) ==
    [u EXCEPT !.selectedPaths = {},
              !.rows = [k \in 1..Len(@) |-> [@[k] EXCEPT !.checked = FALSE]]]

\* refreshApplyBtn: applyServerBtn.disabled
refreshApplyBtn(u) == [u EXCEPT !.applyDisabled = (Cardinality(u.selectedPaths) = 0)]

\* A request without parameters.
NoQuery ==
    [minSize |-> "absent", olderThan |-> "absent", include |-> <<>>, exclude |-> <<>>,
     downloads |-> "absent", dryRun |-> "absent", mode |-> "absent"]

\* The category checkboxes, in the order of the page.
Chips == <<"user-caches", "browsers", "dev", "pkg", "downloads">>

\* getScanParamsFromUI and the query string doServerScan builds from it:
\* minSize and olderThan are set only when their number is not 0.
scanQueryFromUI(u) ==
    LET minBytes == NumberOf(u.minSizeUi).n
        olderDays == NumberOf(u.olderThanUi).n
        cats == SelectSeq(Chips, LAMBDA c : c \in u.categoriesEnabled)
        str(n) == CASE n = 1 -> "1" [] n = 4 -> "4" [] n = 1024 -> "1024" [] OTHER -> "0"
    IN [NoQuery EXCEPT !.minSize = IF minBytes # 0 THEN str(minBytes) ELSE "absent",
                       !.olderThan = IF olderDays # 0 THEN str(olderDays) ELSE "absent",
                       !.include = cats,
                       !.downloads = IF Includes(cats, "downloads") THEN "1" ELSE "absent"]

\* The items doServerApply and buildPlan put into a plan: the items of
\* state.items whose path is selected, with path and category.
buildPlan(u) ==
    LET chosen == SelectSeq(u.items, LAMBDA it : it.path \in u.selectedPaths)
    IN [k \in 1..Len(chosen) |-> [path |-> chosen[k].path, category |-> chosen[k].category]]

\* The page before a report is loaded.  report is "none" or what was last
\* assigned to state.report; plan holds the items of the latest plan sent.
NoPage ==
    [report |-> "none", items |-> <<>>, filtered |-> <<>>, sorted |-> <<>>, rows |-> <<>>,
     selectedPaths |-> {}, sortKey |-> "bytes", sortDir |-> "desc",
     minBytes |-> 0, olderDays |-> 0,
     categoriesEnabled |-> {"user-caches", "browsers", "dev", "pkg"},
     search |-> "", topN |-> 0,
     minSizeUi |-> "0", olderThanUi |-> "0", applyDisabled |-> TRUE, plan |-> <<>>]

-----------------------------------------------------------------------------
(* State machine *)

\* For a scan: fresh tells a walk from a cache hit, key is the request's cache
\* key, cache0 the cache it found, at the time of the request, req the query
\* or the arguments given, after the call that preceded it ("apply":
\* an apply answered 200).
\* last is the latest server scan answered before this call: its query, its
\* items, the time of the walk that listed them and the file system it ran on
\* (a scan remembers it only when it asked the same query).
\* waiting holds the handlers suspended at an await while this call runs.
\* For an apply: req is the query or the command line, sent the entries of
\* the body or the lines of the plan file.
\* pc: "idle" | "loop" | "responded" | "threw".  code: the HTTP status sent or
\* the CLI's exit status, -1 while there is none.  fs0 is the file system when
\* the call began, fsPrev the file system before the latest loop iteration.
\* walk is the state of a walkCollect in progress: its stack, the directories
\* it has read and the items it has pushed, in order.
NoWalk == [stack |-> <<>>, read |-> <<>>, items |-> <<>>]

NoLast == [ok |-> FALSE, req |-> NoQuery, items |-> <<>>, walked |-> 0, fs |-> {}]

IdleCall ==
    [pc |-> "idle", impl |-> "none", dryRun |-> FALSE, mode |-> "trash", input |-> "none",
     plan |-> <<>>, i |-> 1, details |-> <<>>, count |-> 0, bytes |-> 0,
     fs0 |-> {}, fsPrev |-> {}, code |-> -1, report |-> NoReport,
     fresh |-> FALSE, key |-> NoKey, cache0 |-> {}, after |-> "none", at |-> 0, req |-> NoQuery,
     last |-> NoLast, sent |-> <<>>, io |-> [readdir |-> {}, lstat |-> {}],
     waiting |-> <<>>, walk |-> NoWalk]

\* What the call that begins now remembers of the latest server scan.
LastScan ==
    IF call.input = "scan" /\ call.impl = "server"
    THEN [ok |-> TRUE, req |-> call.req, items |-> call.report.items,
          walked |-> call.report.generatedAt, fs |-> fs]
    ELSE call.last

Init ==
    /\ fs \in InitFss
    /\ scanCache = {}
    /\ now = 0
    /\ call = IdleCall
    /\ ui = NoPage

Queries ==
    { [NoQuery EXCEPT !.dryRun = d, !.mode = m] : d \in {"1", "absent"}, m \in {"delete", "trash"} }

Bodies ==
    { [kind |-> k, items |-> <<>>] : k \in {"empty", "garbage", "noitems"} }
    \cup { [kind |-> "plan", items |-> s] : s \in SeqsUpTo(PlanItems, MaxPlanLen) }

\* POST /api/apply up to the loop: the query, the body, the 400 for an
\* invalid plan; with an empty items array the response follows at once.
ApplyEntered(query, body) ==
    LET q == parseQuery(query)
        plan == readJsonBody(body)
        begun == [IdleCall EXCEPT !.impl = "server", !.dryRun = q.dryRun, !.mode = q.mode,
                                  !.input = body.kind, !.plan = plan.items,
                                  !.fs0 = fs, !.fsPrev = fs, !.last = LastScan,
                                  !.req = query, !.sent = body.items]
    IN IF plan.isNull \/ ~plan.hasItems THEN [begun EXCEPT !.pc = "responded", !.code = 400]
       ELSE IF plan.items = <<>> THEN [begun EXCEPT !.pc = "responded", !.code = 200]
       ELSE [begun EXCEPT !.pc = "loop"]

ApplyRequest(query, body) ==
    LET entered == ApplyEntered(query, body)
    IN /\ call.pc = "idle" \/ (call.pc = "responded" /\ call.input = "scan")
       /\ call' = entered
       /\ scanCache' = IF entered.pc = "responded" /\ entered.code = 200
                       THEN scanCache_clear(scanCache) ELSE scanCache
       /\ UNCHANGED <<fs, now, ui>>

\* One iteration of applyHandler's loop; after the last one the summary is
\* built, the scan cache cleared and the response sent.  Reading .path of a
\* null entry throws out of the handler: nothing is sent, nothing is cleared.
ApplyStep(ioFails) ==
    /\ call.pc = "loop" /\ call.impl = "server"
    /\ LET it == call.plan[call.i]
           r == applyItem(fs, it, call.dryRun, call.mode, now, ioFails)
           last == call.i = Len(call.plan)
       IN IF it.tag = "null"
          THEN /\ call' = [call EXCEPT !.pc = "threw", !.fsPrev = fs]
               /\ UNCHANGED <<fs, scanCache>>
          ELSE /\ fs' = r.fs
               /\ call' = [call EXCEPT !.pc = IF last THEN "responded" ELSE "loop",
                                       !.code = IF last THEN 200 ELSE -1,
                                       !.i = call.i + 1,
                                       !.details = call.details \o r.pushed,
                                       !.count = call.count + r.count,
                                       !.bytes = call.bytes + r.bytes,
                                       !.fsPrev = fs]
               /\ scanCache' = IF last THEN scanCache_clear(scanCache) ELSE scanCache
    /\ UNCHANGED <<now, ui>>

\* The path lists a plan file can hold.
CliPlans == SeqsUpTo(PlanPaths, MaxPlanLen)

\* disk_cleaner.sh --apply-from FILE: the flags as parse_args left them and
\* the list of paths extracted from the plan file.
CliBegun(DRY_RUN, USE_TRASH, lines) ==
    LET begun == [IdleCall EXCEPT !.impl = "cli", !.dryRun = (DRY_RUN = 1),
                                  !.mode = IF USE_TRASH = 1 THEN "trash" ELSE "delete",
                                  !.input = "plan",
                                  !.plan = [k \in 1..Len(lines) |-> PathItem(lines[k])],
                                  !.fs0 = fs, !.fsPrev = fs]
    IN IF lines = <<>> THEN [begun EXCEPT !.pc = "responded", !.code = 0]
       ELSE [begun EXCEPT !.pc = "loop"]

CliApply(DRY_RUN, USE_TRASH, lines) ==
    /\ call.pc = "idle"
    /\ call' = CliBegun(DRY_RUN, USE_TRASH, lines)
    /\ UNCHANGED <<fs, scanCache, now, ui>>

\* The lines of a plan file.  JsonHead: the line that opens the items array;
\* JsonItem: an item of it on a line of its own; TextPath: a bare path; Blank:
\* an empty line; Comment: a line that starts with #; CommentItems: such a
\* line in which the word "items" stands in double quotes.
JsonHead == [kind |-> "json_head", path |-> <<>>]
JsonItem(p) == [kind |-> "json_item", path |-> p]
TextPath(p) == [kind |-> "path", path |-> p]
Blank == [kind |-> "blank", path |-> <<>>]
Comment == [kind |-> "comment", path |-> <<>>]
CommentItems == [kind |-> "comment_items", path |-> <<>>]

\* apply_plan's list_file: what the sed extractor or the two grep filters keep
\* of the plan file, one path per line.
list_file(plan) ==
    LET hasItems == \E k \in 1..Len(plan) : plan[k].kind \in {"json_head", "comment_items"}
        kept == IF hasItems
                THEN SelectSeq(plan, LAMBDA l : l.kind = "json_item")
                ELSE SelectSeq(plan, LAMBDA l : l.kind \notin {"blank", "comment", "comment_items"})
    IN [k \in 1..Len(kept) |-> kept[k].path]

\* The globals parse_args sets, as the script initialises them.
CliGlobals == [DRY_RUN |-> 1, APPLY |-> 0, USE_TRASH |-> 1, YES |-> 0]

\* parse_args with a --dry-run that clears APPLY and leaves DRY_RUN as it is.
RECURSIVE parse_args_DryRunKeeps(_, _)
parse_args_DryRunKeeps(g, argv) ==
    IF argv = <<>> THEN g
    ELSE LET a == Head(argv)
             h == CASE a = "--dry-run" -> [g EXCEPT !.APPLY = 0]
                    [] a = "--apply" -> [g EXCEPT !.DRY_RUN = 0, !.APPLY = 1]
                    [] a = "--trash" -> [g EXCEPT !.USE_TRASH = 1]
                    [] a = "--no-trash" -> [g EXCEPT !.USE_TRASH = 0]
                    [] a = "--yes" -> [g EXCEPT !.YES = 1]
         IN parse_args_DryRunKeeps(h, Tail(argv))

\* parse_args over the flags that bear on an apply, left to right.
RECURSIVE parse_args(_, _)
parse_args(g, argv) ==
    IF argv = <<>> THEN g
    ELSE LET a == Head(argv)
             h == CASE a = "--dry-run" -> [g EXCEPT !.DRY_RUN = 1, !.APPLY = 0]
                    [] a = "--apply" -> [g EXCEPT !.DRY_RUN = 0, !.APPLY = 1]
                    [] a = "--trash" -> [g EXCEPT !.USE_TRASH = 1]
                    [] a = "--no-trash" -> [g EXCEPT !.USE_TRASH = 0]
                    [] a = "--yes" -> [g EXCEPT !.YES = 1]
         IN parse_args(h, Tail(argv))

\* confirm: true without a prompt under --yes, else by the answer read.
confirm(g, ans) == g.YES = 1 \/ ans \in {"y", "Y", "yes", "YES"}

\* double_confirm_no_trash: FALSE where it exits 1.
double_confirm_no_trash(g, ans) ==
    g.USE_TRASH = 1 \/ g.YES = 1 \/ confirm(g, ans)

\* disk_cleaner.sh --apply-from FILE argv...: main from parse_args to the loop
\* of apply_plan; ans is what the terminal answers if a prompt is shown.
CliMain(argv, ans, plan) ==
    LET g == parse_args(CliGlobals, argv)
        prompted == g.USE_TRASH = 0 /\ g.YES = 0
        asked == [argv |-> argv, ans |-> IF prompted THEN ans ELSE "none"]
    IN /\ call.pc = "idle"
       /\ call' = IF double_confirm_no_trash(g, ans)
                  THEN [CliBegun(g.DRY_RUN, g.USE_TRASH, list_file(plan))
                           EXCEPT !.req = asked, !.sent = plan]
                  ELSE [IdleCall EXCEPT !.pc = "responded", !.impl = "cli", !.input = "plan",
                                        !.dryRun = (g.DRY_RUN = 1),
                                        !.mode = IF g.USE_TRASH = 1 THEN "trash" ELSE "delete",
                                        !.code = 1, !.fs0 = fs, !.fsPrev = fs,
                                        !.req = asked, !.sent = plan]
       /\ UNCHANGED <<fs, scanCache, now, ui>>

\* One iteration of apply_plan's loop; after the last one the totals are logged.
CliStep(ioFails) ==
    /\ call.pc = "loop" /\ call.impl = "cli"
    /\ LET p == call.plan[call.i].path
           r == apply_plan_item(fs, p, IF call.dryRun THEN 1 ELSE 0,
                                IF call.mode = "trash" THEN 1 ELSE 0, now, ioFails)
           last == call.i = Len(call.plan)
       IN /\ fs' = r.fs
          /\ call' = [call EXCEPT !.pc = IF last THEN "responded" ELSE "loop",
                                  !.code = IF last THEN 0 ELSE -1,
                                  !.i = call.i + 1,
                                  !.details = call.details \o r.pushed,
                                  !.count = call.count + r.count,
                                  !.bytes = call.bytes + r.bytes,
                                  !.fsPrev = fs]
    /\ UNCHANGED <<scanCache, now, ui>>

ScanQueries ==
    { NoQuery,
      [NoQuery EXCEPT !.minSize = "0", !.olderThan = "0"],
      [NoQuery EXCEPT !.minSize = "0", !.olderThan = "0", !.include = <<"downloads">>],
      [NoQuery EXCEPT !.minSize = "0", !.olderThan = "0", !.include = <<"pkg", "user-caches">>],
      [NoQuery EXCEPT !.minSize = "0", !.olderThan = "0", !.include = <<"user-caches", "pkg">>],
      [NoQuery EXCEPT !.minSize = "4", !.olderThan = "0", !.downloads = "1", !.exclude = <<"dev">>] }

BrewAnswers ==
    { [found |-> FALSE, cache |-> <<>>], [found |-> TRUE, cache |-> BrewCacheOutside] }

NoArgs ==
    [MIN_SIZE |-> [set |-> FALSE, n |-> 0, unit |-> ""], OLDER_THAN |-> [set |-> FALSE, n |-> 0],
     INCLUDE_CATS |-> <<>>, EXCLUDE_CATS |-> <<>>, ENABLE_DOWNLOADS |-> 0, ENABLE_DOCKER |-> 0]

ScanArgs ==
    { NoArgs,
      [NoArgs EXCEPT !.INCLUDE_CATS = <<"pkg">>],
      [NoArgs EXCEPT !.ENABLE_DOWNLOADS = 1, !.ENABLE_DOCKER = 1, !.EXCLUDE_CATS = <<"dev">>],
      [NoArgs EXCEPT !.MIN_SIZE = [set |-> TRUE, n |-> 0, unit |-> "k"],
                     !.OLDER_THAN = [set |-> TRUE, n |-> 0]] }

\* The call as scanHandler leaves it when it has answered with r.
ScanAnswered(query, r, io) ==
    [IdleCall EXCEPT !.pc = "responded", !.impl = "server", !.input = "scan",
                     !.code = r.code, !.report = r.body,
                     !.fresh = r.fresh, !.key = r.key, !.cache0 = scanCache, !.at = now, !.req = query,
                     !.last = IF LastScan.req = query THEN LastScan ELSE NoLast,
                     !.io = io,
                     !.after = IF call.input = "plan" /\ call.code = 200
                               THEN "apply" ELSE call.input]

\* GET /api/scan: the whole of scanHandler, with the calls of io failing.
ScanUnder(query, brew, io) ==
    LET r == scanHandler(fs, scanCache, now, query, brew, io)
    IN /\ call.pc \in {"idle", "responded"}
       /\ scanCache' = r.cache
       /\ call' = ScanAnswered(query, r, io)
       /\ UNCHANGED <<fs, now, ui>>

\* GET /api/scan while no call on the file system fails.
ScanRequest(query, brew) == ScanUnder(query, brew, NoFaults)

\* Time passes between two requests.
Tick(d) ==
    /\ call.pc \in {"idle", "responded"}
    /\ now + d <= MaxNow
    /\ now' = now + d
    /\ UNCHANGED <<fs, scanCache, call, ui>>

\* Requests that differ in how they spell one category set, in the downloads
\* flag, and in the filters.
CacheQueries ==
    { [NoQuery EXCEPT !.minSize = "0", !.olderThan = "0", !.include = <<"pkg", "user-caches">>],
      [NoQuery EXCEPT !.minSize = "0", !.olderThan = "0", !.include = <<"user-caches", "pkg">>],
      [NoQuery EXCEPT !.minSize = "0", !.olderThan = "0", !.include = <<"user-caches", "pkg">>,
                      !.downloads = "1"] }

CacheApplyQueries == { [NoQuery EXCEPT !.dryRun = d, !.mode = "delete"] : d \in {"1", "absent"} }

CacheBodies ==
    { [kind |-> "garbage", items |-> <<>>], [kind |-> "plan", items |-> <<PathItem(CacheFile)>>] }

NoBrew == [found |-> FALSE, cache |-> <<>>]

\* disk_cleaner.sh --scan-output FILE: the whole of scan.
CliScan(args, brew) ==
    /\ call.input \in {"none", "scan"}
    /\ call' = [IdleCall EXCEPT !.pc = "responded", !.impl = "cli", !.input = "scan",
                                !.code = 0, !.report = scan(fs, args, now, brew),
                                !.fresh = TRUE, !.key = scan_key(args), !.at = now, !.req = args]
    /\ UNCHANGED <<fs, scanCache, now, ui>>

Next ==
    \/ call.pc = "idle" /\ \E query \in Queries, body \in Bodies : ApplyRequest(query, body)
    \/ \E ioFails \in BOOLEAN : ApplyStep(ioFails)
    \/ call.pc = "idle" /\ \E d \in {0, 1}, t \in {0, 1}, lines \in CliPlans : CliApply(d, t, lines)
    \/ \E ioFails \in BOOLEAN : CliStep(ioFails)

Spec == Init /\ [][Next]_vars

NextScan ==
    \/ \E query \in ScanQueries, brew \in BrewAnswers : ScanRequest(query, brew)
    \/ \E args \in ScanArgs, brew \in BrewAnswers : CliScan(args, brew)

SpecScan == Init /\ [][NextScan]_vars

\* Scans of one cache file of every size and age around the thresholds of one
\* kilobyte and one day.
FilterNow == 2 * 86400
FilterFile == HOME \o <<"Library", "Caches", "f.dat">>

FilterFss ==
    { { Dir(<<>>, 1), Dir(<<"Users">>, 2), Dir(HOME, 3),
        Dir(HOME \o <<"Library">>, 4), Dir(HOME \o <<"Library", "Caches">>, 5),
        [File(FilterFile, size, 6) EXCEPT !.mtime = FilterNow - age] }
      : size \in {0, 1023, 1024, 1025}, age \in {86399, 86400, 86401} }

InitFilter ==
    /\ fs \in FilterFss
    /\ scanCache = {}
    /\ now = FilterNow
    /\ call = IdleCall
    /\ ui = NoPage

FilterQueries ==
    { [NoQuery EXCEPT !.minSize = m, !.olderThan = o, !.include = <<"user-caches">>]
      : m \in {"0", "1024"}, o \in {"0", "1"} }

FilterArgs ==
    { [NoArgs EXCEPT !.MIN_SIZE = m, !.OLDER_THAN = o, !.INCLUDE_CATS = <<"user-caches">>]
      : m \in { NoArgs.MIN_SIZE, [set |-> TRUE, n |-> 0, unit |-> "k"], [set |-> TRUE, n |-> 1, unit |-> "k"] },
        o \in { NoArgs.OLDER_THAN, [set |-> TRUE, n |-> 0], [set |-> TRUE, n |-> 1] } }

NextFilter ==
    \/ \E query \in FilterQueries : ScanRequest(query, NoBrew)
    \/ \E args \in FilterArgs : CliScan(args, NoBrew)

SpecFilter == InitFilter /\ [][NextFilter]_vars

\* Scans, applies and the passing of time, in any order.
NextCache ==
    \/ \E query \in CacheQueries : ScanRequest(query, NoBrew)
    \/ \E query \in CacheApplyQueries, body \in CacheBodies : ApplyRequest(query, body)
    \/ \E ioFails \in BOOLEAN : ApplyStep(ioFails)
    \/ \E d \in {TickSeconds} : Tick(d)

SpecCache == Init /\ [][NextCache]_vars

\* The same scan again and again, with and without a minimum age, between
\* applies and the passing of time.
RepeatQueries ==
    { [NoQuery EXCEPT !.minSize = "0", !.olderThan = o, !.include = <<"user-caches">>]
      : o \in {"0", "1"} }

NextRepeat ==
    \/ \E query \in RepeatQueries : ScanRequest(query, NoBrew)
    \/ \E query \in CacheApplyQueries, body \in CacheBodies : ApplyRequest(query, body)
    \/ \E ioFails \in BOOLEAN : ApplyStep(ioFails)
    \/ \E d \in {TickSeconds} : Tick(d)

SpecRepeat == Init /\ [][NextRepeat]_vars

\* Applies through every entry point: each spelling of the query's mode, each
\* short command line, plans as JSON and as plain text.
EntryPaths == { CacheFile, OtherBin }
Flags == { "--apply", "--dry-run", "--trash", "--no-trash", "--yes" }
Answers == { "y", "" }

TextPlans ==
    SeqsUpTo({ TextPath(p) : p \in EntryPaths } \cup { Blank, Comment, CommentItems }, MaxPlanLen)

JsonPlans ==
    { <<JsonHead>> \o [k \in 1..Len(ps) |-> JsonItem(ps[k])] : ps \in SeqsUpTo(EntryPaths, MaxPlanLen) }

EntryQueries ==
    { [NoQuery EXCEPT !.dryRun = d, !.mode = m]
      : d \in {"1", "absent"}, m \in {"delete", "trash", "absent", "Delete"} }

\* Items as a client sends them: the path alone, or with the bytes and mtime
\* of a report, true or not.
EntryItems ==
    { PathItem(p) : p \in EntryPaths }
    \cup { [PathItem(CacheFile) EXCEPT !.bytes = 999, !.mtime = 7],
           [PathItem(OtherBin) EXCEPT !.bytes = 0] }

EntryBodies ==
    { [kind |-> "plan", items |-> s] : s \in SeqsUpTo(EntryItems, MaxPlanLen) }
    \cup { [kind |-> "text", items |-> t] : t \in TextPlans }

NextEntry ==
    \/ call.pc = "idle" /\ \E query \in EntryQueries, body \in EntryBodies : ApplyRequest(query, body)
    \/ \E ioFails \in BOOLEAN : ApplyStep(ioFails)
    \/ call.pc = "idle" /\ \E argv \in SeqsUpTo(Flags, MaxArgs), ans \in Answers,
                               plan \in TextPlans \cup JsonPlans : CliMain(argv, ans, plan)
    \/ \E ioFails \in BOOLEAN : CliStep(ioFails)

SpecEntry == Init /\ [][NextEntry]_vars

\* The deny-list tests on their own: paths below the deny-listed directories,
\* below their siblings of a longer name, below photo-library bundles, under
\* home and under ~/Library.
PolicyNames ==
    { "Documents", "Documents-old", "Desktop", "Desktop2", "Pictures", "Pictures.bak",
      "Mail", "Mobile Documents", "Trip.photoslibrary", "Photos Library.photoslibrary", "Caches" }

PolicyPaths ==
    { base \o <<name>> \o tail : base \in { HOME, HOME \o <<"Library">> },
                                  name \in PolicyNames,
                                  tail \in { <<"x">>, <<"sub", "x">> } }

InitPolicy ==
    /\ fs = InitFs
    /\ scanCache = {}
    /\ now = 0
    /\ call \in { [IdleCall EXCEPT !.plan = <<PathItem(p)>>] : p \in PolicyPaths }
    /\ ui = NoPage

\* isDenyListed(p) of the server and deny_listed "$p" of the CLI on the path
\* drawn; code is 1 where the path is found deny-listed, else 0.
IsDenyListedCall ==
    /\ call.pc = "idle"
    /\ call' = [call EXCEPT !.pc = "responded", !.impl = "server", !.input = "policy",
                            !.code = IF isDenyListed(call.plan[1].path) THEN 1 ELSE 0]
    /\ UNCHANGED <<fs, scanCache, now, ui>>

DenyListedCall ==
    /\ call.pc = "idle"
    /\ call' = [call EXCEPT !.pc = "responded", !.impl = "cli", !.input = "policy",
                            !.code = IF deny_listed(call.plan[1].path) THEN 1 ELSE 0]
    /\ UNCHANGED <<fs, scanCache, now, ui>>

NextPolicy == IsDenyListedCall \/ DenyListedCall

SpecPolicy == InitPolicy /\ [][NextPolicy]_vars

(* Handlers in flight together.  Node runs one handler at a time and passes  *)
(* to another only where the running one awaits: applyHandler at             *)
(* readJsonBody ("reading"), scanHandler inside walkCollect ("walking").     *)

\* The awaits of the handlers were there one inside applyHandler's loop.
awaits_InLoop(pc) == pc \in {"reading", "walking", "loop"}

\* The places at which a handler awaits.
awaits(pc) == pc \in {"reading", "walking"}

\* No handler is in the middle of synchronous code.
CanRun == call.pc # "loop" \/ awaits(call.pc)

Suspended(pc, query, body, saved) == [pc |-> pc, query |-> query, body |-> body, saved |-> saved]

NoBody == [kind |-> "empty", items |-> <<>>]

\* POST /api/apply arrives: applyHandler runs to its await of the body.
ApplyArrive(query, body) ==
    /\ CanRun /\ Len(call.waiting) < MaxInFlight
    /\ call' = [call EXCEPT !.waiting = Append(@, Suspended("reading", query, body, IdleCall))]
    /\ UNCHANGED <<fs, scanCache, now, ui>>

\* GET /api/scan arrives: scanHandler answers from the cache, or finds no
\* entry and walks; the walk has read the file system when it is suspended
\* at the last of its awaits, before scanCache.set and the response.
ScanArrive(query) ==
    LET r == scanHandler(fs, scanCache, now, query, NoBrew, NoFaults)
    IN /\ CanRun /\ Len(call.waiting) < MaxInFlight
       /\ call' = IF r.fresh
                  THEN [call EXCEPT !.waiting =
                           Append(@, Suspended("walking", query, NoBody, ScanAnswered(query, r, NoFaults)))]
                  ELSE [ScanAnswered(query, r, NoFaults) EXCEPT !.waiting = call.waiting]
       /\ UNCHANGED <<fs, scanCache, now, ui>>

\* The event loop resumes the k-th suspended handler: applyHandler goes on
\* from its body to its loop, scanHandler stores its report and answers.
Resume(k) ==
    /\ CanRun /\ k \in 1..Len(call.waiting)
    /\ LET w == call.waiting[k]
           others == SubSeq(call.waiting, 1, k - 1) \o SubSeq(call.waiting, k + 1, Len(call.waiting))
           rest == IF call.pc = "loop"
                   THEN Append(others, Suspended("loop", NoQuery, NoBody, [call EXCEPT !.waiting = <<>>]))
                   ELSE others
           entered == ApplyEntered(w.query, w.body)
       IN CASE w.pc = "reading" ->
                 /\ call' = [entered EXCEPT !.waiting = rest,
                                            !.after = IF call.input = "plan" /\ call.pc = "responded"
                                                         /\ Len(call.waiting) = Len(rest) + 1
                                                      THEN "apply in flight" ELSE "none"]
                 /\ scanCache' = IF entered.pc = "responded" /\ entered.code = 200
                                 THEN scanCache_clear(scanCache) ELSE scanCache
            [] w.pc = "walking" ->
                 /\ call' = [w.saved EXCEPT !.waiting = rest]
                 /\ scanCache' = { c \in scanCache : c.key # w.saved.key }
                                 \cup { [key |-> w.saved.key, ts |-> now, body |-> w.saved.report] }
            [] w.pc = "loop" ->
                 /\ call' = [w.saved EXCEPT !.waiting = rest]
                 /\ UNCHANGED scanCache
    /\ UNCHANGED <<fs, now, ui>>

ConcPlans ==
    { [k \in 1..Len(ps) |-> PathItem(ps[k])]
      : ps \in { <<CacheFile>>, <<CacheFile, OtherBin>>, <<OtherBin, CacheFile>> } }

ConcQuery == [NoQuery EXCEPT !.minSize = "0", !.olderThan = "0", !.include = <<"user-caches">>]

NextConc ==
    \/ \E items \in ConcPlans : ApplyArrive(NoQuery, [kind |-> "plan", items |-> items])
    \/ ScanArrive(ConcQuery)
    \/ \E k \in 1..MaxInFlight : Resume(k)
    \/ ApplyStep(FALSE)

SpecConc == Init /\ [][NextConc]_vars

\* One scan of the caches during which some directories cannot be read and
\* some entries cannot be stat'ed.
FaultQueries ==
    { [NoQuery EXCEPT !.minSize = "0", !.olderThan = "0", !.include = c]
      : c \in { <<"user-caches">>, <<"pkg">>, <<"user-caches", "pkg">> } }

FaultSets ==
    { [readdir |-> r, lstat |-> l]
      : r \in SUBSET { Parent(CacheFile), Parent(NpmFile) },
        l \in SUBSET { CacheFile, Parent(NpmFile), NpmFile } }

NextFaults ==
    call.pc = "idle" /\ \E query \in FaultQueries, io \in FaultSets : ScanUnder(query, NoBrew, io)

SpecFaults == Init /\ [][NextFaults]_vars

\* One scan by either implementation, the category lists spelled in the ways
\* a comma list can be: padded names, empty fields, docker, an unknown name.
CatLists ==
    { <<>>, <<"pkg">>, <<"user-caches", " pkg">>, <<"docker">>, <<"nosuch">>,
      <<"pkg", "", "docker">>, <<"pkg", "">> }

CatExcludes == { <<>>, <<"pkg">>, <<" pkg">>, <<"docker", "dev">> }

CatQuery(inc, exc, dl) ==
    [NoQuery EXCEPT !.minSize = "0", !.olderThan = "0", !.include = inc, !.exclude = exc,
                    !.downloads = IF dl = 1 THEN "1" ELSE "absent"]

CatArgs(inc, exc, dl, dk) ==
    [NoArgs EXCEPT !.INCLUDE_CATS = inc, !.EXCLUDE_CATS = exc,
                   !.ENABLE_DOWNLOADS = dl, !.ENABLE_DOCKER = dk]

NextCats ==
    \/ call.pc = "idle" /\ \E inc \in CatLists, exc \in CatExcludes, dl \in {0, 1} :
          ScanRequest(CatQuery(inc, exc, dl), NoBrew)
    \/ call.pc = "idle" /\ \E inc \in CatLists, exc \in CatExcludes, dl \in {0, 1}, dk \in {0, 1} :
          CliScan(CatArgs(inc, exc, dl, dk), NoBrew)

SpecCats == Init /\ [][NextCats]_vars

\* One walkCollect, turn by turn, on trees with symbolic links that lead back
\* into the tree: to an ancestor, to the directory that holds the link, to
\* each other, and from the root of the walk.
NpmDir == Parent(NpmFile)

WalkFs ==
    InitFs \cup
    { Link(NpmDir \o <<"up">>, Parent(NpmDir), 30), Link(NpmDir \o <<"self">>, NpmDir, 31),
      Link(Parent(NpmDir) \o <<"la">>, Parent(NpmDir) \o <<"lb">>, 32),
      Link(Parent(NpmDir) \o <<"lb">>, Parent(NpmDir) \o <<"la">>, 33),
      Dir(NpmDir \o <<"sub">>, 34), File(NpmDir \o <<"sub", "f">>, 4, 35) }

\* The same with ~/Downloads a link to the cache directory.
WalkFsLinkedRoot ==
    { e \in WalkFs : e.path # HOME \o <<"Downloads">> }
    \cup { Link(HOME \o <<"Downloads">>, Parent(NpmDir), 15) }

InitWalk ==
    /\ fs \in { WalkFs, WalkFsLinkedRoot }
    /\ scanCache = {}
    /\ now = 0
    /\ call = IdleCall
    /\ ui = NoPage

WalkBases == { HOME \o <<"Library">>, Parent(NpmDir), NpmDir, HOME \o <<"Downloads">>, GonePath }

WalkFaults ==
    { [readdir |-> r, lstat |-> l] : r \in SUBSET { NpmDir }, l \in SUBSET { NpmDir \o <<"sub">> } }

\* walkCollect(baseDir, ...): const stack = [baseDir]
WalkBegin(baseDir, io) ==
    /\ call.pc = "idle"
    /\ call' = [IdleCall EXCEPT !.pc = "walk", !.impl = "server", !.input = "walk", !.io = io,
                                !.fs0 = fs, !.walk = [NoWalk EXCEPT !.stack = <<baseDir>>]]
    /\ UNCHANGED <<fs, scanCache, now, ui>>

\* One turn of the while loop.
WalkTurn ==
    /\ call.pc = "walk" /\ call.walk.stack # <<>>
    /\ Len(call.walk.read) < MaxReads
    /\ LET turn == walkIter(fs, call.walk.stack, [minBytes |-> 0, olderDays |-> 0], now,
                            "User Library cache", "user-caches", call.io)
       IN call' = [call EXCEPT !.walk = [stack |-> turn.stack,
                                         read |-> Append(call.walk.read, turn.read),
                                         items |-> call.walk.items \o turn.items]]
    /\ UNCHANGED <<fs, scanCache, now, ui>>

\* The loop ends on the empty stack and walkCollect returns.
WalkReturn ==
    /\ call.pc = "walk" /\ call.walk.stack = <<>>
    /\ call' = [call EXCEPT !.pc = "responded"]
    /\ UNCHANGED <<fs, scanCache, now, ui>>

NextWalk ==
    \/ \E baseDir \in WalkBases, io \in WalkFaults : WalkBegin(baseDir, io)
    \/ WalkTurn
    \/ WalkReturn

\* Every call on the file system returns or fails in bounded time, so a loop
\* that can take a turn takes it: weak fairness of WalkTurn and of WalkReturn,
\* with the states in which each can act written out.
TurnReady == call.pc = "walk" /\ call.walk.stack # <<>> /\ Len(call.walk.read) < MaxReads
ReturnReady == call.pc = "walk" /\ call.walk.stack = <<>>

SpecWalk ==
    /\ InitWalk /\ [][NextWalk]_vars
    /\ ([]<>(~TurnReady) \/ []<><<WalkTurn>>_vars)
    /\ ([]<>(~ReturnReady) \/ []<><<WalkReturn>>_vars)

-----------------------------------------------------------------------------
(* The page and its server.  The handlers of the page run one at a time;    *)
(* doServerScan and doServerApply send their request to the server of the   *)
(* model.                                                                   *)

UiOld == 0 - 2 * 86400

\* A home whose cache directory holds three files last written two days ago.
UiFs ==
    { Dir(<<>>, 1), Dir(<<"Users">>, 2), Dir(HOME, 3),
      Dir(HOME \o <<"Library">>, 4), Dir(HOME \o <<"Library", "Caches">>, 5),
      [File(CacheFile, 5, 6) EXCEPT !.mtime = UiOld],
      [File(IconFile, 6, 7) EXCEPT !.mtime = UiOld],
      Dir(Parent(NpmFile), 20), [File(NpmFile, 8, 21) EXCEPT !.mtime = UiOld] }

\* A report file: the three files, the last as an item of another category
\* that is marked not trashable.
ReportFile ==
    [categories |-> <<"user-caches", "pkg">>,
     items |-> << Item(CacheFile, EntryAt(UiFs, CacheFile), "user-caches", "cache"),
                  Item(IconFile, EntryAt(UiFs, IconFile), "user-caches", "cache"),
                  [Item(NpmFile, EntryAt(UiFs, NpmFile), "pkg", "npm cache") EXCEPT !.trashable = FALSE] >>]

\* The inputs of the page: the files loaded, the values typed or clicked; the
\* page applies with the dry-run box checked.
UiReports == { ReportFile }
UiSizes == {"0", "4"}
UiDays == {"0", "1"}
UiChips == {"pkg"}
UiSearches == {"", "npm"}
UiTopNs == {0, 1}
UiSortKeys == {"bytes", "path"}
UiApplies == { [dry |-> TRUE, mode |-> "trash"] }

InitUi ==
    /\ fs = UiFs
    /\ scanCache = {}
    /\ now = 0
    /\ call = IdleCall
    /\ ui = refreshApplyBtn(NoPage)

\* The filters of the page that are not as the page starts with them.
filtersSet(u) ==
    Cardinality({ f \in {"minSize", "olderThan", "category", "search", "topN", "sort"} :
        CASE f = "minSize" -> u.minSizeUi # NoPage.minSizeUi
          [] f = "olderThan" -> u.olderThanUi # NoPage.olderThanUi
          [] f = "category" -> u.categoriesEnabled # NoPage.categoriesEnabled
          [] f = "search" -> u.search # NoPage.search
          [] f = "topN" -> u.topN # NoPage.topN
          [] OTHER -> <<u.sortKey, u.sortDir>> # <<NoPage.sortKey, NoPage.sortDir>> })

\* The loading overlay covers the page from the fetch of doServerApply to its
\* answer: no event reaches the page meanwhile.
PageFree == ui.plan = <<>>

\* The change handler of the report file input, for a file that parses and
\* holds an items array (autoLoadReport does the same with report.json).
LoadReport(data) ==
    /\ PageFree
    /\ ui' = filtered([ui EXCEPT !.report = "file",
                                 !.items = normalizeItems(data.items),
                                 !.selectedPaths = {},
                                 !.minBytes = NumberOf(ui.minSizeUi).n,
                                 !.olderDays = NumberOf(ui.olderThanUi).n,
                                 !.search = ""], now)
    /\ UNCHANGED <<fs, scanCache, now, call>>

\* The change handler of the minimum size input.
MinSizeChange(v) ==
    /\ PageFree
    /\ v # ui.minSizeUi
    /\ ui' = filtered([ui EXCEPT !.minSizeUi = v, !.minBytes = NumberOf(v).n], now)
    /\ filtersSet(ui') <= MaxFilters
    /\ UNCHANGED <<fs, scanCache, now, call>>

\* The change handler of the older-than input.
OlderThanChange(v) ==
    /\ PageFree
    /\ v # ui.olderThanUi
    /\ ui' = filtered([ui EXCEPT !.olderThanUi = v, !.olderDays = NumberOf(v).n], now)
    /\ filtersSet(ui') <= MaxFilters
    /\ UNCHANGED <<fs, scanCache, now, call>>

\* The change handler of the category checkboxes.
CategoryChange(cat) ==
    /\ PageFree
    /\ ui' = filtered([ui EXCEPT !.categoriesEnabled =
                                     IF cat \in @ THEN @ \ {cat} ELSE @ \cup {cat}], now)
    /\ filtersSet(ui') <= MaxFilters
    /\ UNCHANGED <<fs, scanCache, now, call>>

\* The input handler of the search box.
SearchInput(text) ==
    /\ PageFree
    /\ text # ui.search
    /\ ui' = filtered([ui EXCEPT !.search = text], now)
    /\ filtersSet(ui') <= MaxFilters
    /\ UNCHANGED <<fs, scanCache, now, call>>

\* The input handler of the top-N box.
TopNInput(n) ==
    /\ PageFree
    /\ n # ui.topN
    /\ ui' = sorted([ui EXCEPT !.topN = n])
    /\ filtersSet(ui') <= MaxFilters
    /\ UNCHANGED <<fs, scanCache, now, call>>

\* A click on a column header.
SortClick(key) ==
    /\ PageFree
    /\ ui' = sorted(IF ui.sortKey = key
                    THEN [ui EXCEPT !.sortDir = IF @ = "asc" THEN "desc" ELSE "asc"]
                    ELSE [ui EXCEPT !.sortKey = key,
                                    !.sortDir = IF key = "path" THEN "asc" ELSE "desc"])
    /\ filtersSet(ui') <= MaxFilters
    /\ UNCHANGED <<fs, scanCache, now, call>>

\* What a click on row k or on its checkbox does to the row and the
\* selection.
rowToggled(u, k) ==
    LET checked == ~u.rows[k].checked
    IN [u EXCEPT !.rows[k].checked = checked,
                 !.selectedPaths = setRowSelected(@, u.rows[k].path, checked)]

\* A click on row k outside its checkbox: the delegated click handler of the
\* table body.
RowClick(k) ==
    /\ PageFree
    /\ k \in 1..Len(ui.rows) /\ ~ui.rows[k].disabled
    /\ ui' = rowToggled(ui, k)
    /\ UNCHANGED <<fs, scanCache, now, call>>

\* A click on the checkbox of row k: its change handler, then the change
\* handler wireServerIntegration put on the table body.
RowCheckbox(k) ==
    /\ PageFree
    /\ k \in 1..Len(ui.rows) /\ ~ui.rows[k].disabled
    /\ ui' = refreshApplyBtn(rowToggled(ui, k))
    /\ UNCHANGED <<fs, scanCache, now, call>>

\* The select-all button, Cmd/Ctrl+A.
SelectAll ==
    /\ PageFree
    /\ ui' = selectAllVisible(ui)
    /\ UNCHANGED <<fs, scanCache, now, call>>

\* refreshToggleAllCheckbox: the toggle-all checkbox as every handler that
\* touches the rows leaves it.
toggleAll(u) ==
    LET allVisible == { k \in 1..Len(u.rows) : ~u.rows[k].disabled }
    IN [disabled |-> allVisible = {},
        checked |-> allVisible # {} /\ \A k \in allVisible : u.rows[k].checked]

\* A click on the toggle-all checkbox: its change handler.
ToggleAll ==
    /\ PageFree
    /\ ~toggleAll(ui).disabled
    /\ ui' = setVisible(ui, ~toggleAll(ui).checked)
    /\ UNCHANGED <<fs, scanCache, now, call>>

\* The clear button, Escape.
ClearSelection ==
    /\ PageFree
    /\ ui' = clearSelection(ui)
    /\ UNCHANGED <<fs, scanCache, now, call>>

\* doServerScan with the backend online: the request, scanHandler's answer,
\* the new table.  The page asks while the server has no scan cached (its
\* first scan, or the first after an apply), and the call keeps no history of
\* the calls before it.
DoServerScan ==
    LET query == scanQueryFromUI(ui)
        r == scanHandler(fs, scanCache, now, query, NoBrew, NoFaults)
    IN /\ PageFree
       /\ call.pc \in {"idle", "responded"} /\ scanCache = {}
       /\ scanCache' = r.cache
       /\ call' = [ScanAnswered(query, r, NoFaults) EXCEPT !.last = NoLast, !.after = "none"]
       /\ ui' = refreshApplyBtn(filtered([ui EXCEPT !.report = "scan",
                                                    !.items = normalizeItems(r.body.items),
                                                    !.selectedPaths = {}], now))
       /\ UNCHANGED <<fs, now>>

\* doServerApply with the backend online, up to its fetch: dry is the dry-run
\* checkbox, mode the apply mode; the confirmation of a real delete is given.
DoServerApply(dry, mode) ==
    LET items == buildPlan(ui)
        query == [NoQuery EXCEPT !.dryRun = IF dry THEN "1" ELSE "0", !.mode = mode]
        body == [kind |-> "plan", items |-> [k \in 1..Len(items) |-> PathItem(items[k].path)]]
        entered == [ApplyEntered(query, body) EXCEPT !.last = NoLast]
    IN /\ PageFree
       /\ ~ui.applyDisabled /\ items # <<>>
       /\ call.pc \in {"idle", "responded"}
       /\ ui' = [ui EXCEPT !.plan = items]
       /\ call' = entered
       /\ scanCache' = IF entered.pc = "responded" /\ entered.code = 200
                       THEN scanCache_clear(scanCache) ELSE scanCache
       /\ UNCHANGED <<fs, now>>

\* doServerApply from the answer on: the alert; the plan it sent is gone with
\* the call.
ApplyAnswered ==
    /\ ui.plan # <<>> /\ call.pc = "responded" /\ call.input = "plan"
    /\ ui' = [ui EXCEPT !.plan = <<>>]
    /\ UNCHANGED <<fs, scanCache, now, call>>

UiFilterEvent ==
    \/ \E v \in UiSizes : MinSizeChange(v)
    \/ \E v \in UiDays : OlderThanChange(v)
    \/ \E cat \in UiChips : CategoryChange(cat)
    \/ \E text \in UiSearches : SearchInput(text)
    \/ \E n \in UiTopNs : TopNInput(n)
    \/ \E key \in UiSortKeys : SortClick(key)

UiSelectionEvent ==
    \/ \E k \in 1..3 : RowClick(k)
    \/ \E k \in 1..3 : RowCheckbox(k)
    \/ SelectAll
    \/ ToggleAll
    \/ ClearSelection

NextUi ==
    \/ \E data \in UiReports : LoadReport(data)
    \/ UiFilterEvent
    \/ UiSelectionEvent
    \/ DoServerScan
    \/ \E a \in UiApplies : DoServerApply(a.dry, a.mode)
    \/ ApplyStep(FALSE)
    \/ ApplyAnswered

SpecUi == InitUi /\ [][NextUi]_vars

-----------------------------------------------------------------------------
(* Vocabulary of the properties *)

\* The terminal status a details entry (server) or a log line (CLI) reports.
Status(d) ==
    CASE d.status \in {"missing", "Missing"} -> "MISSING"
      [] d.status = "skipped" /\ d.reason = "outside_home" -> "OUT_OF_SCOPE"
      [] d.status = "Outside HOME, skipping" -> "OUT_OF_SCOPE"
      [] d.status = "skipped" /\ d.reason = "deny_listed" -> "DENY_LISTED"
      [] d.status = "Deny-listed, skipping" -> "DENY_LISTED"
      [] d.status \in {"dry", "[DRY] Would remove"} -> "DRY_PREVIEWED"
      [] d.status \in {"trashed", "Trashed"} -> "TRASHED"
      [] d.status \in {"deleted", "Deleted"} -> "DELETED"
      [] d.status \in {"error", "Failed to trash", "Failed to delete"} -> "ERROR"

\* A loop iteration has just run: LastPath is the path it was given, call.fsPrev
\* the file system it found, fs the file system it left, LastDetail its report.
Stepped == call.pc \in {"loop", "responded"} /\ call.details # <<>> /\ Len(call.details) = call.i - 1
LastPath == call.plan[call.i - 1].path
LastDetail == call.details[Len(call.details)]

\* The entry p names, and everything below it, is where and what it was.
Untouched(p) ==
    /\ stat(call.fsPrev, p).ok
    /\ Subtree(call.fsPrev, stat(call.fsPrev, p).path) \subseteq fs

DenyRoots ==
    { HOME \o <<"Pictures">>, HOME \o <<"Library", "Mail">>,
      HOME \o <<"Library", "Mobile Documents">>, HOME \o <<"Desktop">>,
      HOME \o <<"Documents">> }

StrictlyUnder(c, d) == IsPrefix(d, c) /\ Len(c) > Len(d)

RECURSIVE SumBytes(_)
SumBytes(ds) == IF ds = <<>> THEN 0 ELSE Head(ds).bytes + SumBytes(Tail(ds))

Counted(ds) == SelectSeq(ds, LAMBDA d : Status(d) \in {"DRY_PREVIEWED", "TRASHED", "DELETED"})

-----------------------------------------------------------------------------
(* Properties *)

\* C1 (as claimed): an existing plan path that resolves to a place under a
\* deny-listed subtree of home is reported DENY_LISTED and stays where it is.
C1_DenyListedUntouched ==
    (/\ Stepped
     /\ existsSync(call.fsPrev, LastPath)
     /\ \E d \in DenyRoots : StrictlyUnder(resolve(LastPath), d))
    => (Status(LastDetail) = "DENY_LISTED" /\ Untouched(LastPath))

\* C2 (as claimed): an existing plan path that does not resolve to a place
\* strictly under home is reported OUT_OF_SCOPE and nothing is changed.
C2_OutOfScopeUntouched ==
    (/\ Stepped
     /\ existsSync(call.fsPrev, LastPath)
     /\ ~StrictlyUnder(resolve(LastPath), HOME))
    => (Status(LastDetail) = "OUT_OF_SCOPE" /\ fs = call.fsPrev)

\* C3 (as claimed): an existing plan path that is the root of a deny-listed
\* subtree, or a photo-library bundle under home, is reported DENY_LISTED and
\* stays where it is.
C3_DenyRootUntouched ==
    (/\ Stepped
     /\ existsSync(call.fsPrev, LastPath)
     /\ LET c == resolve(LastPath)
        IN \/ c \in DenyRoots
           \/ StrictlyUnder(c, HOME) /\ c[Len(c)] \in PhotosLibraryNames)
    => (Status(LastDetail) = "DENY_LISTED" /\ Untouched(LastPath))

\* A prefix of p names a symbolic link: p is one, or is reached through one.
ThroughSymlink(fsv, p) ==
    \E k \in 1..Len(p) :
        LET s == lstat(fsv, SubSeq(p, 1, k))
        IN s.ok /\ KindAt(fsv, s.path) = "link"

\* C4 (as claimed, apply): a plan path that is a symbolic link or is reached
\* through one leaves the file system as it was.
C4_SymlinkNeverMutated ==
    (Stepped /\ ThroughSymlink(call.fsPrev, LastPath)) => fs = call.fsPrev

\* C5: a dry run changes nothing in the file system (no path, no size, no
\* trash directory), in either mode and in both implementations, and every
\* item that exists and passes the scope and deny-list checks is reported
\* DRY_PREVIEWED.
C5_DryRunNoMutation ==
    (call.pc # "idle" /\ call.dryRun)
    => /\ fs = call.fs0
       /\ \A k \in 1..Len(call.details) :
            Status(call.details[k]) \in {"MISSING", "OUT_OF_SCOPE", "DENY_LISTED", "DRY_PREVIEWED"}
       /\ Stepped =>
            LET p == LastPath
                passes == /\ existsSync(call.fsPrev, p)
                          /\ IF call.impl = "server"
                             THEN ensureHomeScoped(p) /\ ~isDenyListed(p)
                             ELSE ensure_home_scope(p) /\ ~deny_listed(p)
            IN passes => Status(LastDetail) = "DRY_PREVIEWED"

C5_Witness ==
    /\ call.pc = "responded" /\ call.dryRun /\ call.mode = "delete"
    /\ Len(call.details) = 2
    /\ Status(call.details[1]) = "DRY_PREVIEWED"
    /\ Status(call.details[2]) = "DRY_PREVIEWED"
    /\ existsSync(fs, call.details[1].path)

\* C7: in the server and in the CLI, the status of an item is the first that
\* applies of MISSING (no path, or the path does not exist), OUT_OF_SCOPE and
\* DENY_LISTED (as the implementation's own scope and deny-list tests decide),
\* DRY_PREVIEWED (dry run), then TRASHED or ERROR in trash mode, DELETED or
\* ERROR in delete mode; and when the status is TRASHED or DELETED the path no
\* longer exists once the item has been processed.
C7_StatusOrder ==
    Stepped
    => LET p == LastPath
           st == Status(LastDetail)
           scoped == IF call.impl = "server" THEN ensureHomeScoped(p) ELSE ensure_home_scope(p)
           denied == IF call.impl = "server" THEN isDenyListed(p) ELSE deny_listed(p)
       IN /\ IF p = <<>> \/ ~existsSync(call.fsPrev, p) THEN st = "MISSING"
             ELSE IF ~scoped THEN st = "OUT_OF_SCOPE"
             ELSE IF denied THEN st = "DENY_LISTED"
             ELSE IF call.dryRun THEN st = "DRY_PREVIEWED"
             ELSE IF call.mode = "trash" THEN st \in {"TRASHED", "ERROR"}
             ELSE st \in {"DELETED", "ERROR"}
          /\ st \in {"TRASHED", "DELETED"} => ~existsSync(fs, p)

C7_Witness ==
    /\ call.pc = "responded" /\ call.impl = "server" /\ ~call.dryRun
    /\ Len(call.details) = 2
    /\ Status(call.details[1]) = "DENY_LISTED"
    /\ Status(call.details[2]) \in {"TRASHED", "DELETED"}
    /\ ~existsSync(fs, call.details[2].path)

\* C8 (as claimed): when the call ends, count and bytes are the number and
\* the byte sum of the items reported DRY_PREVIEWED, TRASHED or DELETED.
C8_TotalsOnlyCounted ==
    (call.pc = "responded" /\ call.code \in {0, 200})
    => /\ call.count = Len(Counted(call.details))
       /\ call.bytes = SumBytes(Counted(call.details))

\* C9: in the server, a plan of well-formed entries is processed to its end
\* whatever fails on the way: the handler never throws, while it runs it has
\* pushed one entry for each item it has passed, its response lists one entry
\* per plan item in plan order, and an item whose trash or delete failed (it is
\* still there after a mutation was attempted) carries ERROR.
C9_FailureIsolated ==
    (call.impl = "server" /\ \A k \in 1..Len(call.plan) : call.plan[k].tag # "null")
    => /\ call.pc # "threw"
       /\ call.pc = "loop" => (call.i <= Len(call.plan) /\ Len(call.details) = call.i - 1)
       /\ (call.pc = "responded" /\ call.code = 200) =>
            /\ Len(call.details) = Len(call.plan)
            /\ \A k \in 1..Len(call.plan) : call.details[k].path = call.plan[k].path
       /\ (/\ Stepped
           /\ Status(LastDetail) \notin {"MISSING", "OUT_OF_SCOPE", "DENY_LISTED", "DRY_PREVIEWED"}
           /\ existsSync(fs, LastPath))
          => Status(LastDetail) = "ERROR"

C9_Witness ==
    /\ call.pc = "responded" /\ call.impl = "server" /\ call.code = 200
    /\ Len(call.details) = 2
    /\ Status(call.details[1]) = "ERROR"
    /\ Status(call.details[2]) \in {"TRASHED", "DELETED"}

\* The trash root, and the entry of the file system at the start of the call
\* that the plan path p named then.
TrashRoot == HOME \o <<".Trash">>
SourceEntry(p) == EntryAt(call.fs0, lstat(call.fs0, p).path)
InTrash(ino) == { e \in fs : StrictlyUnder(e.path, TrashRoot) /\ e.ino = ino }

\* C11 (as claimed): once the call has ended, every item reported TRASHED is
\* gone from its original path and is held, with its size, by exactly one
\* entry under the trash root.
C11_TrashedOnceInTrash ==
    (call.pc = "responded" /\ call.input = "plan")
    => \A k \in 1..Len(call.details) :
          (Status(call.details[k]) = "TRASHED" /\ lstat(call.fs0, call.details[k].path).ok)
          => LET src == SourceEntry(call.details[k].path)
             IN /\ ~existsSync(fs, call.details[k].path)
                /\ Cardinality(InTrash(src.ino)) = 1
                /\ \A e \in InTrash(src.ino) : e.size = src.size

\* C12 (as claimed): when two items of one call are reported TRASHED and name
\* different files with the same base name, both files are in the trash
\* afterwards, under different names.
C12_SameNameBothKept ==
    (call.pc = "responded" /\ call.input = "plan")
    => \A j, k \in 1..Len(call.details) :
          LET a == call.details[j]
              b == call.details[k]
          IN (/\ j < k
              /\ Status(a) = "TRASHED" /\ Status(b) = "TRASHED"
              /\ lstat(call.fs0, a.path).ok /\ lstat(call.fs0, b.path).ok
              /\ basename(a.path) = basename(b.path)
              /\ SourceEntry(a.path).ino # SourceEntry(b.path).ino)
             => /\ InTrash(SourceEntry(a.path).ino) # {}
                /\ InTrash(SourceEntry(b.path).ino) # {}

ServerScan == call.input = "scan" /\ call.impl = "server"

\* C13: an apply answered 200 leaves the scan cache empty, and the scan request
\* that follows it, whatever its parameters and however much later, finds no
\* entry, walks, and reports what it walked at that time.
C13_ApplyClearsCache ==
    /\ (call.impl = "server" /\ call.input = "plan" /\ call.pc = "responded" /\ call.code = 200)
       => scanCache = {}
    /\ (ServerScan /\ call.after = "apply")
       => (call.cache0 = {} /\ call.fresh /\ call.report.generatedAt = call.at)

C13_Witness ==
    /\ ServerScan /\ call.after = "apply" /\ call.fresh /\ call.at > 0
    /\ \A k \in 1..Len(call.report.items) : call.report.items[k].path # CacheFile
    /\ scanCache # {}

\* The set of the names in a list of categories.
CatSet(cats) == { cats[k] : k \in 1..Len(cats) }

\* C14 (as claimed): a scan request whose min size, min age and category set
\* are those of an entry stored less than the time-to-live ago is answered from
\* the cache.
C14_EquivalentRequestsShareEntry ==
    (/\ ServerScan
     /\ \E c \in call.cache0 :
           /\ c.key.minBytes = call.key.minBytes
           /\ c.key.olderDays = call.key.olderDays
           /\ CatSet(c.key.cats) = CatSet(call.key.cats)
           /\ call.at - c.ts < 5 * 60)
    => ~call.fresh

\* C15: a scan is answered from the cache only by an entry of its key younger
\* than 5 minutes, with that entry's report; when every entry of its key is
\* 5 minutes old or older it walks, and the one entry of that key is then the new
\* report, stamped with the time of the request.
C15_TtlRespected ==
    ServerScan
    => LET same == { c \in call.cache0 : c.key = call.key }
       IN /\ ~call.fresh => \E c \in same : call.at - c.ts < 5 * 60 /\ c.body = call.report
          /\ (\A c \in same : call.at - c.ts >= 5 * 60)
             => /\ call.fresh
                /\ call.report.generatedAt = call.at
          /\ (call.fresh /\ call.pc = "responded")
             => { c \in scanCache : c.key = call.key }
                = { [key |-> call.key, ts |-> call.at, body |-> call.report] }

C15_Witness ==
    /\ ServerScan /\ call.fresh
    /\ \E c \in call.cache0 : c.key = call.key /\ call.at - c.ts = 5 * 60

\* C10 (as claimed): a server apply whose body is empty, unparseable, without
\* an items array, or whose items hold an entry that is not an object with a
\* path is answered 400 and changes nothing.
C10_InvalidPlanRejected ==
    (/\ call.impl = "server"
     /\ \/ call.input # "plan"
        \/ \E k \in 1..Len(call.plan) : call.plan[k].tag # "path")
    => /\ fs = call.fs0
       /\ call.pc \in {"responded", "threw"} => call.code = 400

\* C4 (as claimed, scan): no report lists a path that is a symbolic link or
\* is reached through one.
C4_SymlinkNeverListed ==
    call.input = "scan" =>
        \A k \in 1..Len(call.report.items) : ~ThroughSymlink(fs, call.report.items[k].path)

\* C6 (as claimed): every item of every report, of the server or of the CLI,
\* has a path strictly under home and under no deny-listed subtree.
C6_ItemsInScope ==
    call.input = "scan" =>
        \A k \in 1..Len(call.report.items) :
            LET c == resolve(call.report.items[k].path)
            IN /\ StrictlyUnder(c, HOME)
               /\ \A d \in DenyRoots : ~IsPrefix(d, c)

\* C16 (as claimed): in every report, of the server or of the CLI, totals.count
\* is the number of items and totals.bytes the sum of their bytes.
C16_TotalsMatchItems ==
    call.input = "scan" =>
        /\ call.report.totals.count = Len(call.report.items)
        /\ call.report.totals.bytes = SumBytes(call.report.items)

\* The server's totals are those of its items.
C16_ServerTotalsMatchItems == call.impl = "server" => C16_TotalsMatchItems

\* C17 (as claimed): no two items of one report have the same path.
C17_PathsUnique ==
    call.input = "scan" =>
        \A j, k \in 1..Len(call.report.items) :
            j < k => call.report.items[j].path # call.report.items[k].path

\* A scan asked for without size or age parameters.
NoFilterGiven ==
    IF call.impl = "server"
    THEN call.req.minSize = "absent" /\ call.req.olderThan = "absent"
    ELSE ~call.req.MIN_SIZE.set /\ ~call.req.OLDER_THAN.set

NoCategoryGiven ==
    IF call.impl = "server"
    THEN call.req.include = <<>> /\ call.req.exclude = <<>> /\ call.req.downloads = "absent"
    ELSE /\ call.req.INCLUDE_CATS = <<>> /\ call.req.EXCLUDE_CATS = <<>>
         /\ call.req.ENABLE_DOWNLOADS = 0 /\ call.req.ENABLE_DOCKER = 0

\* C19 (as claimed): a scan without size or age parameters lists only files of
\* 50 MB or more that are 30 days old or older, and without category
\* parameters its categories are user-caches, browsers, dev, pkg.
C19_DefaultsApplied ==
    call.input = "scan" =>
        /\ NoFilterGiven =>
              \A k \in 1..Len(call.report.items) :
                  /\ call.report.items[k].bytes >= 50 * 1024 * 1024
                  /\ call.at - call.report.items[k].mtime >= 30 * 86400
        /\ NoCategoryGiven => call.report.categories = <<"user-caches", "browsers", "dev", "pkg">>

\* The place of a category in the report's categories list, 0 when not in it.
CategoryPlace(c) ==
    IF Includes(call.report.categories, c)
    THEN CHOOSE k \in 1..Len(call.report.categories) : call.report.categories[k] = c
    ELSE 0

\* C20 (as claimed): the items of a report come in the order of the report's
\* categories list: an item never comes before an item of an earlier category.
C20_ItemsInCategoryOrder ==
    call.input = "scan" =>
        \A j, k \in 1..Len(call.report.items) :
            j < k => CategoryPlace(call.report.items[j].category)
                     <= CategoryPlace(call.report.items[k].category)

\* The CLI's reports keep the order of the categories list.
C20_CliItemsInCategoryOrder == call.impl = "cli" => C20_ItemsInCategoryOrder

\* The file f is in the report.
Listed(f) == \E k \in 1..Len(call.report.items) : call.report.items[k].path = f

\* C18 (as claimed): a cache file is reported exactly when its size is at
\* least the minimum size and its age at least the minimum age in days, both
\* bounds included; a minimum that is not set or is zero excludes nothing.
C18_FiltersInclusive ==
    (call.input = "scan" /\ call.fresh)
    => \A e \in fs :
          (e.kind = "file" /\ e.path = FilterFile)
          => (Listed(e.path) <=> /\ e.size >= call.key.minBytes
                                 /\ call.at - e.mtime >= call.key.olderDays * 86400)

\* The server's filters are inclusive lower bounds.
C18_ServerFiltersInclusive == call.impl = "server" => C18_FiltersInclusive

\* The server's reports alone keep every item lexically in scope.
C6_ServerItemsInScope == call.impl = "server" => C6_ItemsInScope

\* The items of a report as a set.
ItemSet(items) == { items[k] : k \in 1..Len(items) }

\* The scan just answered repeats the latest scan: the same query, on the
\* file system that scan ran on.
RepeatsLastScan == ServerScan /\ call.last.ok /\ call.last.req = call.req /\ call.last.fs = fs

SameSideOfCutoff ==
    \A e \in fs :
        e.kind = "file" =>
            ((call.last.walked - e.mtime < call.key.olderDays * 86400)
             <=> (call.at - e.mtime < call.key.olderDays * 86400))

ListedPaths(lines) ==
    LET kept == SelectSeq(lines, LAMBDA l : l.kind = "path")
    IN [k \in 1..Len(kept) |-> kept[k].path]

\* The call was given a plain-text plan (and, in the CLI, went on to apply it).
TextPlanGiven ==
    IF call.impl = "server" THEN call.input = "text"
    ELSE /\ call.impl = "cli" /\ call.req # NoQuery /\ call.code # 1
         /\ \A k \in 1..Len(call.sent) : call.sent[k].kind # "json_head"

\* C22 (as claimed): an apply given a plain-text plan, by the server or by the
\* CLI, ends in success having processed exactly the paths the text lists, in
\* order.
C22_TextPlanAccepted ==
    (TextPlanGiven /\ call.pc = "responded")
    => /\ call.code \in {0, 200}
       /\ Len(call.details) = Len(ListedPaths(call.sent))
       /\ \A k \in 1..Len(call.details) : call.details[k].path = ListedPaths(call.sent)[k]

\* The CLI alone accepts a plain-text plan in which no line holds the word
\* "items" in double quotes.
C22_CliTextPlanAccepted ==
    (call.impl = "cli" /\ \A k \in 1..Len(call.sent) : call.sent[k].kind # "comment_items")
    => C22_TextPlanAccepted

\* The place c lies, segment by segment, below a deny-listed directory or
\* below a photo-library bundle under home.
UnderDenied(c) ==
    \/ \E d \in DenyRoots : StrictlyUnder(c, d)
    \/ IsPrefix(HOME, c) /\ \E i \in (Len(HOME) + 1)..(Len(c) - 1) : c[i] \in PhotosLibraryNames

\* C23 (as claimed): the deny-list test of the server and of the CLI is true
\* exactly of the paths that lie, at a segment boundary, below a deny-listed
\* directory or below a photo-library bundle under home.
C23_DenyListAtSegmentBoundary ==
    (call.input = "policy" /\ call.pc = "responded")
    => (call.code = 1 <=> UnderDenied(resolve(call.plan[1].path)))

\* The server's test is never false of such a path.
C23_ServerDeniesAllUnderDenied ==
    (call.input = "policy" /\ call.pc = "responded" /\ call.impl = "server")
    => (UnderDenied(resolve(call.plan[1].path)) => call.code = 1)

\* The call is a run of the CLI's main with a plan file.
CliRun == call.impl = "cli" /\ call.input = "plan" /\ call.req # NoQuery

\* --apply stands on the command line with no --dry-run after it.
ApplyGiven(argv) ==
    \E i \in 1..Len(argv) :
        argv[i] = "--apply" /\ \A j \in (i + 1)..Len(argv) : argv[j] # "--dry-run"

\* C24: a run of the CLI whose command line does not hold --apply with no
\* --dry-run after it changes nothing in the file system, and reports no item
\* trashed, deleted or failed; so with --apply-from alone every listed path
\* that existed still exists.
C24_CliDryRunByDefault ==
    (CliRun /\ ~ApplyGiven(call.req.argv))
    => /\ fs = call.fs0
       /\ call.dryRun
       /\ \A k \in 1..Len(call.details) :
             Status(call.details[k]) \in {"MISSING", "OUT_OF_SCOPE", "DENY_LISTED", "DRY_PREVIEWED"}

C24_Witness ==
    /\ CliRun /\ call.pc = "responded" /\ call.code = 0
    /\ call.req.argv = <<"--apply", "--dry-run">>
    /\ Len(call.details) = 2
    /\ \A k \in 1..2 : Status(call.details[k]) = "DRY_PREVIEWED" /\ existsSync(fs, call.details[k].path)

\* The call selects delete in so many words: mode=delete in the query of the
\* server, --no-trash on the command line of the CLI.
ExplicitDelete ==
    IF call.impl = "server" THEN call.req.mode = "delete"
    ELSE \E i \in 1..Len(call.req.argv) : call.req.argv[i] = "--no-trash"

\* The inodes at and below the place the plan path p named before the step.
InodesAt(p) ==
    IF lstat(call.fsPrev, p).ok
    THEN { e.ino : e \in Subtree(call.fsPrev, lstat(call.fsPrev, p).path) }
    ELSE {}

Given(flag) == \E i \in 1..Len(call.req.argv) : call.req.argv[i] = flag

\* C26 (as claimed): a run of the CLI with --apply and --no-trash and without
\* --yes deletes nothing: no item is reported DELETED and the file system is
\* as it was.
C26_NoDeleteWithoutYes ==
    (CliRun /\ Given("--apply") /\ Given("--no-trash") /\ ~Given("--yes"))
    => /\ \A k \in 1..Len(call.details) : Status(call.details[k]) # "DELETED"
       /\ call.mode = "delete" => fs = call.fs0

\* Without --yes and with the prompt declined, such a run deletes nothing.
C26_NoDeleteWhenDeclined ==
    (CliRun /\ ~Given("--yes") /\ call.req.ans = "")
    => /\ \A k \in 1..Len(call.details) : Status(call.details[k]) # "DELETED"
       /\ call.mode = "delete" => (fs = call.fs0 /\ call.code = 1)

\* The directories the scan just answered walked.
WalkedRoots ==
    LET roots == scanRoots(fs, call.report.categories, NoBrew)
    IN { roots[k].dir : k \in 1..Len(roots) }

\* The file at f can be reached from the directory root through directories
\* only, every one readable and every step stat'ed, in scope and not
\* deny-listed: no failing call stands between the root and the file.
Reachable(root, f) ==
    /\ IsPrefix(root, f) /\ Len(f) > Len(root)
    /\ KindAt(fs, root) = "dir"
    /\ \A k \in Len(root)..(Len(f) - 1) :
          /\ KindAt(fs, SubSeq(f, 1, k)) = "dir"
          /\ SubSeq(f, 1, k) \notin call.io.readdir
    /\ \A k \in (Len(root) + 1)..Len(f) :
          /\ SubSeq(f, 1, k) \notin call.io.lstat
          /\ ensureHomeScoped(SubSeq(f, 1, k)) /\ ~isDenyListed(SubSeq(f, 1, k))

\* C27: a scan of the server during which readdir fails on some directories
\* and lstat on some entries is answered 200 with a report, the report lists
\* every regular file that can be reached from a walked directory past no
\* failing call, and nothing at or below a failing call.
C27_ScanSurvivesIoFailures ==
    (ServerScan /\ call.fresh)
    => /\ call.code = 200
       /\ call.report.generatedAt = call.at
       /\ \A e \in fs :
             (e.kind = "file" /\ \E root \in WalkedRoots : Reachable(root, e.path))
             => Listed(e.path)
       /\ \A k \in 1..Len(call.report.items) :
             LET f == call.report.items[k].path
             IN /\ f \notin call.io.lstat
                /\ Parent(f) \notin call.io.readdir

\* The npm directory cannot be stat'ed, and the files beside it are listed.
C27_Witness ==
    /\ ServerScan /\ call.fresh /\ call.code = 200
    /\ call.io.lstat = { Parent(NpmFile) } /\ call.io.readdir = {}
    /\ Listed(CacheFile) /\ Listed(TwoLineFile) /\ ~Listed(NpmFile)

\* The file system and the details the first n items of the plan of the
\* call give when they are processed from the file system fsv with nothing
\* else acting on it.
RECURSIVE Replay(_, _)
Replay(fsv, n) ==
    IF n = 0 THEN [fs |-> fsv, details |-> <<>>]
    ELSE LET before == Replay(fsv, n - 1)
             r == applyItem(before.fs, call.plan[n], call.dryRun, call.mode, now, FALSE)
         IN [fs |-> r.fs, details |-> before.details \o r.pushed]

\* C28: no apply handler is suspended inside its loop while another handler
\* runs, and from the first item of a plan to the response the file system
\* and the details are what the items of that plan alone make of the file
\* system the loop found: no check, name choice or move of another request
\* falls between them.
C28_AppliesNotInterleaved ==
    /\ \A k \in 1..Len(call.waiting) : call.waiting[k].pc # "loop"
    /\ (call.impl = "server" /\ call.input = "plan" /\ call.pc \in {"loop", "responded"})
       => /\ fs = Replay(call.fs0, call.i - 1).fs
          /\ call.details = Replay(call.fs0, call.i - 1).details

\* Two applies were in flight together; the second ran after the first had
\* answered and found the first's item gone.
C28_Witness ==
    /\ call.impl = "server" /\ call.input = "plan" /\ call.pc = "responded" /\ call.code = 200
    /\ call.after = "apply in flight"
    /\ Len(call.details) = 2
    /\ Status(call.details[1]) = "TRASHED" /\ Status(call.details[2]) = "MISSING"
    /\ fs # call.fs0

\* C30 (as claimed): a scan answered from the cache lists no file that an
\* apply has since moved away: no entry built from the file system as it was
\* before an apply outlives that apply.
C30_NoStaleEntryAfterApply ==
    (ServerScan /\ ~call.fresh)
    => \A k \in 1..Len(call.report.items) : existsSync(fs, call.report.items[k].path)

\* C29: in the server, the entry pushed for an item, the file system the
\* item leaves and the bytes added to the total are those the path alone
\* gives, whatever bytes or mtime the item carries; the bytes of an item
\* previewed, trashed or deleted are the size the file system held for the
\* path when the item was processed, and the total is their sum.
C29_BytesFromLiveFileSystem ==
    (call.impl = "server" /\ Stepped)
    => LET it == call.plan[call.i - 1]
           st == stat(call.fsPrev, it.path)
       IN /\ \E ioFails \in BOOLEAN :
                LET r == applyItem(call.fsPrev, PathItem(it.path), call.dryRun, call.mode, now, ioFails)
                IN r.fs = fs /\ r.pushed = <<LastDetail>>
          /\ Status(LastDetail) \in {"DRY_PREVIEWED", "TRASHED", "DELETED"}
                => (st.ok /\ LastDetail.bytes = EntryAt(call.fsPrev, st.path).size)
          /\ call.bytes = SumBytes(call.details)

\* An item sent with 999 bytes is reported with the 5 bytes of the file.
C29_Witness ==
    /\ call.impl = "server" /\ call.pc = "responded" /\ call.code = 200
    /\ Len(call.details) = 1
    /\ call.plan[1].bytes = 999 /\ call.plan[1].path = CacheFile
    /\ Status(call.details[1]) = "TRASHED"
    /\ call.details[1].bytes = 5 /\ call.bytes = 5

\* C31 (as claimed): the categories field of the report a scan request is
\* answered with is the list of categories that request resolved, in that
\* request's order, also when the report comes from the cache.
C31_CategoriesAreTheRequests ==
    (ServerScan /\ call.pc = "responded")
    => call.report.categories = scanCats(parseQuery(call.req))

\* Every scan ends without an error and lists only items of its reported
\* categories, none for docker or a name without a collector.
C32_ItemsOfEffectiveCategories ==
    call.input = "scan"
    => /\ call.code \in {0, 200}
       /\ \A k \in 1..Len(call.report.items) :
             /\ Includes(call.report.categories, call.report.items[k].category)
             /\ call.report.items[k].category \notin {"docker", "nosuch"}

\* C32 (as claimed): a CLI scan without --docker reports the categories the
\* server resolves from the same include list, exclude list and downloads
\* flag, and every scan lists only items of its reported categories, none for
\* docker or a name without a collector, and ends without an error.
C32_SameEffectiveCategories ==
    /\ (call.input = "scan" /\ call.impl = "cli" /\ call.req.ENABLE_DOCKER = 0)
       => call.report.categories
          = scanCats(parseQuery(CatQuery(call.req.INCLUDE_CATS, call.req.EXCLUDE_CATS,
                                         call.req.ENABLE_DOWNLOADS)))
    /\ C32_ItemsOfEffectiveCategories

\* The directories a walk has read, by the directory each path leads to.
DirsRead == [k \in 1..Len(call.walk.read) |-> stat(call.fs0, call.walk.read[k]).path]

Injective(seq) == \A j, k \in 1..Len(seq) : seq[j] = seq[k] => j = k

\* C33: a walk that has begun returns; on its way it reads no directory twice,
\* pushes no file twice and no symbolic link at all, whatever links the tree
\* holds.
C33_WalkTerminates ==
    /\ [](call.input = "walk"
          => /\ Injective(call.walk.read) /\ Injective(DirsRead)
             /\ Injective([k \in 1..Len(call.walk.items) |-> call.walk.items[k].path])
             /\ \A k \in 1..Len(call.walk.items) :
                   KindAt(call.fs0, lstat(call.fs0, call.walk.items[k].path).path) = "file")
    /\ (call.pc = "walk") ~> (call.pc = "responded")

\* A walk from a root that is itself a link into the tree has returned, after
\* reading the directory that holds the links back to its ancestors.
C33_Witness ==
    /\ call.input = "walk" /\ call.pc = "responded"
    /\ call.walk.read[1] = HOME \o <<"Downloads">>
    /\ KindAt(call.fs0, HOME \o <<"Downloads">>) = "link"
    /\ Len(call.walk.read) = 3
    /\ \E k \in 1..Len(call.walk.read) :
          /\ KindAt(call.fs0, stat(call.fs0, call.walk.read[k]).path \o <<"up">>) = "link"
          /\ KindAt(call.fs0, stat(call.fs0, call.walk.read[k]).path \o <<"self">>) = "link"
    /\ Len(call.walk.items) = 4

\* C34 (as claimed): no request to the server ends without a response: a
\* handler that has come to its end has sent 200, 400 or 500.
C34_EveryRequestAnswered ==
    (call.impl = "server" /\ call.pc \notin {"idle", "loop", "reading", "walking", "walk"})
    => /\ call.pc = "responded"
       /\ call.code \in {200, 400, 500}

\* The paths of the items of the loaded report that are trashable.
TrashablePaths == { ui.items[k].path : k \in { j \in 1..Len(ui.items) : ui.items[j].trashable } }

\* C35: whatever events the page has handled, state.selectedPaths holds only
\* paths of trashable items of the report that is loaded, and a report load
\* or a scan result leaves the selection empty.
C35_SelectionWithinLoadedReport ==
    /\ [](ui.selectedPaths \subseteq TrashablePaths)
    /\ [][((\E data \in UiReports : LoadReport(data)) \/ DoServerScan)
            => ui'.selectedPaths = {}]_vars

\* The selected items in report order, with path and category.
SelectedItems ==
    LET picked == SelectSeq(ui.items, LAMBDA it : it.path \in ui.selectedPaths)
    IN [k \in 1..Len(picked) |-> [path |-> picked[k].path, category |-> picked[k].category]]

\* C36: a change of a filter, of the search text, of the sort order or of
\* top-N leaves the selection as it was, and the plan doServerApply sends is
\* the selected items in report order with path and category, those the
\* filters hide included: every selected path is in the plan.
C36_PlanIsTheSelection ==
    /\ [][UiFilterEvent => ui'.selectedPaths = ui.selectedPaths]_vars
    /\ [][(\E a \in UiApplies : DoServerApply(a.dry, a.mode))
            => /\ ui'.plan = SelectedItems
               /\ call'.sent = [k \in 1..Len(SelectedItems) |-> PathItem(SelectedItems[k].path)]
               /\ ui.selectedPaths = { SelectedItems[k].path : k \in 1..Len(SelectedItems) }]_vars

\* C37: after every event that changes the selection (checkbox, row click,
\* select all, toggle all, clear, Cmd/Ctrl+A, Escape) the Apply button of the
\* server is enabled exactly when something is selected.
C37_ApplyButtonFollowsSelection ==
    [][(UiSelectionEvent /\ ui'.selectedPaths # ui.selectedPaths)
         => (ui'.applyDisabled <=> ui'.selectedPaths = {})]_vars

\* The items a walk of the answered categories lists under the thresholds the
\* inputs of the page show, 0 standing for no threshold.
ItemsUnderUiThresholds(cats) ==
    collectRoots(fs, scanRoots(fs, cats, NoBrew),
                 [minBytes |-> NumberOf(ui.minSizeUi).n, olderDays |-> NumberOf(ui.olderThanUi).n],
                 now, NoFaults)

\* C38: the server filters a scan the page asks for with the thresholds of
\* the page's min-size and older-than inputs; with 0 in an input it applies
\* no size or age limit, not its default.
C38_ScanUsesUiThresholds ==
    [][DoServerScan =>
         /\ call'.key.minBytes = NumberOf(ui.minSizeUi).n
         /\ call'.key.olderDays = NumberOf(ui.olderThanUi).n
         /\ call'.report.items = ItemsUnderUiThresholds(call'.report.categories)]_vars

====
